---- MODULE Spec2Model ----
(***************************************************************************)
(* A model of the request-binding pipeline of oy3o/httpx: the descriptor   *)
(* of a destination type (getStructMeta), the binders (Path, Query, JSON,  *)
(* Form), the orchestrator Bind, and the pipeline prepare with the three   *)
(* handler constructors NewHandler, NewStreamHandler and NewResponder.     *)
(* One behaviour is the handling of one request by one handler.            *)
(***************************************************************************)
EXTENDS Integers, Sequences, FiniteSets, TLC

VARIABLES
    typ,        \* the destination type Req: a sequence of field declarations
    cfg,        \* the handler's config (binders, maxBodySize, errorHook)
    r,          \* the *http.Request: path values, query, content type, body
    req,        \* the record "var req Req" of prepare, field index -> value
    pc,         \* position of the handler in prepare / the constructor's closure
    idx,        \* position of Bind's loop in the binder list
    bodyBound,  \* Bind's local bodyBound
    bindErr,    \* the error Bind returned (<<>> is nil)
    calls,      \* the calls made so far, in order
    fnArg,      \* the record the business function was called with
    w,          \* the http.ResponseWriter: what was written
    metaCache,  \* var metaCache: reflect.Type -> *structMeta
    getting,    \* the getStructMeta calls under way, one per task
    call,       \* one call of an operation on its own: the operation and its arguments
    ret,        \* what that call returned, <<>> before it has
    inflight,   \* the requests going through ShutdownManager.Middleware
    objectIDCounter, \* the counter xid.New() makes ids from
    sessionID,  \* Middleware's sessionID of each request
    activeHandlers, \* m.activeHandlers: session id -> the request's session
    callbacks,  \* session.callbacks of each request's sessionState
    closed,     \* m.closed
    down,       \* the calls of Shutdown: position, ctx, result
    worker,     \* the goroutines Shutdown started, one per session
    executed    \* the callbacks that have run to their end, per session, in order

\* the variables of one request going through a handler
pipelineVars == <<typ, cfg, r, req, pc, idx, bodyBound, bindErr, calls, fnArg, w>>

\* the variables of concurrent getStructMeta calls
cacheVars == <<metaCache, getting>>

\* the variables of an operation called on its own
callVars == <<call, ret>>

\* the variables of a ShutdownManager and the requests it tracks
shutdownVars ==
    <<inflight, objectIDCounter, sessionID, activeHandlers, callbacks, closed, down,
      worker, executed>>

\* everything but the pipeline's, the cache's, the call's, the shutdown
\* manager's variables
notPipeline == <<cacheVars, callVars, shutdownVars>>
notCache == <<pipelineVars, callVars, shutdownVars>>
notCall == <<pipelineVars, cacheVars, shutdownVars>>
notShutdown == <<pipelineVars, cacheVars, callVars>>

vars == <<pipelineVars, cacheVars, callVars, shutdownVars>>

\* no getStructMeta call is under way and the cache is not looked at
CacheIdle == metaCache = <<>> /\ getting = <<>>

\* no operation is called on its own
CallIdle == call = <<>> /\ ret = <<>>

\* no ShutdownManager is looked at
ShutdownIdle ==
    /\ inflight = <<>> /\ objectIDCounter = 0 /\ sessionID = <<>>
    /\ activeHandlers = <<>> /\ callbacks = <<>>
    /\ closed = FALSE /\ down = <<>> /\ worker = <<>> /\ executed = <<>>

\* nothing but a request going through a handler is looked at
NotPipelineIdle == CacheIdle /\ CallIdle /\ ShutdownIdle

----------------------------------------------------------------------------
(* Bounds of the model. *)

\* longest query string and longest form / JSON body, in key=value pairs
MaxPairs == 1
\* longest request body, in bytes
MaxBodyLen == 2
\* largest body-size ceiling a handler is configured with (0: no ceiling)
MaxCeiling == 1
\* longest chain of custom binders given to WithBinders
MaxBinders == 3

----------------------------------------------------------------------------
(* Strings, tags and errors. *)

\* strings.EqualFold on the keys the model uses: lower-casing of the field
\* names that appear as keys.
Lower(s) ==
    CASE s = "ID" -> "id"
      [] s = "Name" -> "name"
      [] s = "Token" -> "token"
      [] s = "Note" -> "note"
      [] OTHER -> s

EqualFold(a, b) == Lower(a) = Lower(b)

\* A struct tag value is kept split at its commas: `json:"name,omitempty"`
\* is <<"name", "omitempty">>, an absent tag is <<"">>.  TagKey is the part
\* before the first comma (strings.Index(tag, ",") and the slice tag[:idx]).
TagKey(tag) == tag[1]

\* An error is the chain of its wrapped messages, outermost first; nil is
\* the empty chain.  fmt.Errorf("msg: %w", err) puts msg in front.
Nil == <<>>
Wrap(msg, err) == <<msg>> \o err
\* errors.As(err, &target) for a target of the given type
ErrorsAs(err, target) == \E k \in DOMAIN err : err[k] = target

Last(s) == s[Len(s)]

\* the values under key k of a url.Values built from the pairs, in order
RECURSIVE ValuesOf(_, _)
ValuesOf(pairs, k) ==
    IF pairs = <<>> THEN <<>>
    ELSE (IF Head(pairs)[1] = k THEN <<Head(pairs)[2]>> ELSE <<>>)
         \o ValuesOf(Tail(pairs), k)

KeysIn(pairs) == {pairs[k][1] : k \in DOMAIN pairs}

----------------------------------------------------------------------------
(* Destination types. *)

Field(name, form, json, path) ==
    [name |-> name, form |-> form, json |-> json, path |-> path,
     kind |-> "string", exported |-> TRUE]

\* type UserReq struct {
\*     ID   string `path:"id" form:"id" json:"id"`
\*     Name string `form:"name" json:"name,omitempty"` }
UserReq ==
    << Field("ID", <<"id">>, <<"id">>, "id"),
       Field("Name", <<"name">>, <<"name", "omitempty">>, "") >>

\* type SecretReq struct {
\*     Token string `form:"-" json:"token"`
\*     Note  string `json:"-"` }
SecretReq ==
    << Field("Token", <<"-">>, <<"token">>, ""),
       Field("Note", <<"">>, <<"-">>, "") >>

Types == {UserReq, SecretReq}

\* the zero record of type t: 0 for an int field, "" for a string field
Zero(t) == [f \in DOMAIN t |-> IF t[f].kind = "int" THEN 0 ELSE ""]

----------------------------------------------------------------------------
(* The descriptor of a type: getStructMeta. *)

\* the field is left out of the descriptor: unexported, or its form tag's
\* key is "-" (the test comes before the json tag is consulted)
MetaSkips(f) == ~f.exported \/ TagKey(f.form) = "-"

\* mapKey of getStructMeta: form tag, else json tag, else the field name,
\* each tag cut at its first comma
MapKey(f) ==
    LET formKey == TagKey(f.form)
        jsonKey == TagKey(f.json)
    IN  IF formKey # "" THEN formKey
        ELSE IF jsonKey # "" THEN jsonKey
        ELSE f.name

EmptyMeta ==
    [pathFields |-> <<>>, fileFields |-> <<>>,
     clientIDIdx |-> -1, clientSecretIdx |-> -1, formKeys |-> <<>>]

\* one iteration of the loop over the fields: field i of t added to meta
\* (field indices count from 1 here, from 0 in the source)
MetaAddField(meta, t, i) ==
    LET f == t[i]
        mapKey == MapKey(f)
    IN  IF MetaSkips(f) THEN meta
        ELSE [meta EXCEPT
            !.clientIDIdx =
                IF @ = -1 /\ mapKey = "client_id" /\ f.kind = "string" THEN i ELSE @,
            !.clientSecretIdx =
                IF @ = -1 /\ mapKey = "client_secret" /\ f.kind = "string" THEN i ELSE @,
            !.formKeys = Append(@, mapKey),
            !.pathFields =
                IF f.path # ""
                THEN Append(@, [fieldIdx |-> i, pathKey |-> f.path, schemaKey |-> mapKey])
                ELSE @,
            !.fileFields =
                IF f.kind = "file"
                THEN Append(@, [fieldIdx |-> i, formKey |-> mapKey, isSlice |-> FALSE])
                ELSE IF f.kind = "files"
                THEN Append(@, [fieldIdx |-> i, formKey |-> mapKey, isSlice |-> TRUE])
                ELSE @]

RECURSIVE MetaUpTo(_, _)
MetaUpTo(t, n) ==
    IF n = 0 THEN EmptyMeta ELSE MetaAddField(MetaUpTo(t, n - 1), t, n)

\* the descriptor computed for type t (the slow path; the cache returns an
\* equal one)
getStructMeta(t) == MetaUpTo(t, Len(t))

----------------------------------------------------------------------------
(* The decoders the binders use. *)

\* gorilla/schema with SetAliasTag("form"): a field's alias is the key of
\* its form tag, else its name; alias "-" drops the field.
SchemaAlias(f) ==
    IF TagKey(f.form) # "" THEN TagKey(f.form) ELSE f.name

\* the decimal numerals strconv.ParseInt converts: an optional sign, then
\* digits, leading zeros allowed; here those of the integers up to
\* NumeralMax in absolute value with up to two leading zeros
NumeralMax == 128
Numerals ==
    {[s |-> sign \o pad \o ToString(n), n |-> IF sign = "-" THEN 0 - n ELSE n] :
        sign \in {"", "+", "-"}, pad \in {"", "0", "00"}, n \in 0..NumeralMax}

\* the decoder's converter for int fields, strconv.ParseInt(s, 10, 0): a
\* decimal numeral converts, any other text does not
ParseInt(s) ==
    IF \E e \in Numerals : e.s = s
    THEN [n |-> (CHOOSE e \in Numerals : e.s = s).n, ok |-> TRUE]
    ELSE [n |-> 0, ok |-> FALSE]

\* the field the decoder finds for a key of the map (structInfo.get): the
\* first field whose alias equals the key up to case, exported or not, 0
\* when there is none and the key is ignored (IgnoreUnknownKeys).  The
\* decoder's fields are those whose alias is not "-", here the string and
\* int ones: no map of the model has a key of a file field.
SchemaField(t, k) ==
    LET fs == {i \in DOMAIN t :
                  /\ t[i].kind \in {"string", "int"}
                  /\ SchemaAlias(t[i]) # "-"
                  /\ EqualFold(SchemaAlias(t[i]), k)}
    IN  IF fs = {} THEN 0 ELSE CHOOSE i \in fs : \A j \in fs : i <= j

\* the decoder's step for one key of the map: the key's field takes the
\* last value of the key, converted to the field's type; a field that is
\* not exported cannot be set and is left without an error (also when an
\* exported field behind it has the same alias up to case); an empty value
\* leaves the field as it is (no ZeroEmpty), and so does a value that does
\* not convert, which is a conversion error
SchemaDecodeKey(t, v, pairs, k) ==
    LET i == SchemaField(t, k)
        val == Last(ValuesOf(pairs, k))
    IN  IF i = 0 THEN [v |-> v, err |-> Nil]
        ELSE IF ~t[i].exported \/ val = "" THEN [v |-> v, err |-> Nil]
        ELSE IF t[i].kind = "int"
        THEN IF ParseInt(val).ok
             THEN [v |-> [v EXCEPT ![i] = ParseInt(val).n], err |-> Nil]
             ELSE [v |-> v, err |-> <<"schema: error converting value">>]
        ELSE [v |-> [v EXCEPT ![i] = val], err |-> Nil]

\* the loop of Decode over the keys of the map, visited in the given
\* order: the record it leaves and the error it returns (a
\* schema.MultiError when a key's value did not convert, else nil)
RECURSIVE SchemaDecodeIn(_, _, _, _)
SchemaDecodeIn(t, v, pairs, order) ==
    IF order = <<>> THEN [v |-> v, err |-> Nil]
    ELSE LET d == SchemaDecodeKey(t, v, pairs, Head(order))
             rest == SchemaDecodeIn(t, d.v, pairs, Tail(order))
         IN  [v |-> rest.v, err |-> IF d.err # Nil THEN d.err ELSE rest.err]

\* the orders in which a range over a Go map may visit the keys: any
RECURSIVE Orders(_)
Orders(keys) ==
    IF keys = {} THEN {<<>>}
    ELSE UNION {{<<k>> \o o : o \in Orders(keys \ {k})} : k \in keys}

\* SchemaDecoder.Decode(v, values): `for path, values := range src`.  The
\* order of the range is not defined, and two keys that differ in case
\* only are decoded into the same field one after the other: the outcomes
\* are those of every order
SchemaDecode(t, v, pairs) ==
    {SchemaDecodeIn(t, v, pairs, order) : order \in Orders(KeysIn(pairs))}

\* encoding/json naming as sonic applies it: the key of the json tag, else
\* the field name; json:"-" drops the field.
JsonName(f) ==
    IF TagKey(f.json) # "" THEN TagKey(f.json) ELSE f.name

\* the fields a JSON object key k is decoded into
JsonFieldOf(t, k) ==
    {i \in DOMAIN t :
        t[i].exported /\ JsonName(t[i]) # "-" /\ EqualFold(JsonName(t[i]), k)}

\* decoding the members of one JSON object into v, in order: a member whose
\* key names no field is an error when unknown fields are disallowed and is
\* skipped otherwise; a later member overwrites an earlier one
RECURSIVE JsonDecodeObject(_, _, _, _)
JsonDecodeObject(t, v, pairs, disallow) ==
    IF pairs = <<>> THEN [v |-> v, err |-> Nil]
    ELSE LET k == Head(pairs)[1]
             fs == JsonFieldOf(t, k)
         IN  IF fs = {}
             THEN IF disallow
                  THEN [v |-> v, err |-> <<"json: unknown field">>]
                  ELSE JsonDecodeObject(t, v, Tail(pairs), disallow)
             ELSE JsonDecodeObject(t,
                      [i \in DOMAIN v |-> IF i \in fs THEN Head(pairs)[2] ELSE v[i]],
                      Tail(pairs), disallow)

----------------------------------------------------------------------------
(* The request and its body. *)

\* A text the code takes apart (a Content-Type, a cookie name) is the
\* sequence of its pieces, cut where the code looks: at the end of a prefix
\* it tests for and around each ";".  "" is <<>>.

\* strings.HasPrefix(text, prefix)
HasPrefix(text, prefix) ==
    Len(prefix) <= Len(text) /\ SubSeq(text, 1, Len(prefix)) = prefix

\* the media type mime.ParseMediaType returns: the text before the first ";"
RECURSIVE MediaType(_)
MediaType(ct) ==
    IF ct = <<>> \/ Head(ct) = ";" THEN <<>>
    ELSE <<Head(ct)>> \o MediaType(Tail(ct))

\* the parameters mime.ParseMediaType returns hold a boundary
HasBoundary(ct) == \E i \in 1..(Len(ct) - 1) : ct[i] = ";" /\ ct[i + 1] = " boundary="

\* Content-Type values: none, application/json, application/json;
\* charset=utf-8, application/jsonp, application/x-www-form-urlencoded,
\* multipart/form-data; boundary=x, text/plain
CtNone == <<>>
CtJson == <<"application/json">>
CtJsonCharset == <<"application/json", ";", " charset=utf-8">>
CtJsonp == <<"application/json", "p">>
CtForm == <<"application/x-www-form-urlencoded">>
CtMultipart == <<"multipart/form-data", ";", " boundary=", "x">>
CtText == <<"text/plain">>

ContentTypes == {CtNone, CtJson, CtForm, CtMultipart, CtText}

\* r.URL.RawQuery is the sequence of the segments its "&" separate: a pair
\* <<key, value>> or the empty segment <<>>.  "" is no segment, "&" is two
\* empty segments.  r.URL.Query() skips the empty segments.
URLQuery(rq) == SelectSeq(rq.RawQuery, LAMBDA seg : seg # <<>>)

\* r.Body is one of: http.NoBody (a request without body bytes), the
\* transport's reader, or the http.MaxBytesReader prepare wraps around it
\* (limit: its byte ceiling).  r.bodyLen is the number of bytes the client
\* sent, r.body the key=value members those bytes spell (the members of the
\* JSON object, the fields of the form).  r.tail is what the body holds
\* behind its JSON object: nothing, or further data that is not whitespace.

\* the *http.MaxBytesError a MaxBytesReader's Read returns
MaxBytesError == "http: request body too large"

\* reading the body to its end: a MaxBytesReader fails once more than limit
\* bytes were sent
ReadBodyErr(rq) ==
    IF rq.Body = "MaxBytesReader" /\ rq.bodyLen > rq.limit
    THEN <<MaxBytesError>>
    ELSE Nil

\* reading the first JSON value of the body: the decoder (sonic v1.14.2)
\* scans what a Read handed over before it looks at the Read's error, so a
\* MaxBytesReader fails the read only when the value does not end within
\* limit bytes.  The value ends before the byte of r.tail.
ReadValueErr(rq) ==
    LET valueLen == IF rq.tail = "" THEN rq.bodyLen ELSE rq.bodyLen - 1
    IN  IF rq.Body = "MaxBytesReader" /\ valueLen > rq.limit
        THEN <<MaxBytesError>>
        ELSE Nil

\* http.MaxBytesReader(w, r.Body, n)
MaxBytesReader(rq, n) == [rq EXCEPT !.Body = "MaxBytesReader", !.limit = n]

\* r.PathValue(key): the value of the route's wildcard, "" when there is none
PathValue(rq, key) == IF key \in DOMAIN rq.path THEN rq.path[key] ELSE ""


----------------------------------------------------------------------------
(* The binders. *)

\* A binder value: name is Name(), type is Type(); the other fields are the
\* configuration of the built-in binders and, for a custom binder given to
\* WithBinders, what its Match and Bind answer.
BinderOf(name, type, disallow, matches, fails) ==
    [name |-> name, type |-> type, DisallowUnknownFields |-> disallow,
     matches |-> matches, fails |-> fails]

BinderMeta == "BinderMeta"
BinderBody == "BinderBody"

PathBinder == BinderOf("path", BinderMeta, FALSE, TRUE, FALSE)
QueryBinder == BinderOf("query", BinderMeta, FALSE, TRUE, FALSE)
JsonBinder(disallow) == BinderOf("json", BinderBody, disallow, TRUE, FALSE)
FormBinder == BinderOf("form", BinderBody, FALSE, TRUE, FALSE)
CustomBinder(type, matches, fails) == BinderOf("custom", type, FALSE, matches, fails)

\* the default chain with the Query binder moved behind the Body binders
BindersQueryLast == <<PathBinder, JsonBinder(TRUE), FormBinder, QueryBinder>>

\* var Binders: the default chain
Binders == <<PathBinder, QueryBinder, JsonBinder(TRUE), FormBinder>>

\* binder.Match(r)
Match(b, rq) ==
    CASE b.name = "path" -> TRUE
      [] b.name = "query" -> rq.RawQuery # <<>>
      [] b.name = "json" -> HasPrefix(rq.ct, <<"application/json">>)
      [] b.name = "form" ->
            \/ HasPrefix(rq.ct, <<"application/x-www-form-urlencoded">>)
            \/ HasPrefix(rq.ct, <<"multipart/form-data">>)
      [] OTHER -> b.matches

\* the map PathBinder.Bind stages: schemaKey -> path value, for the path
\* fields whose path value is not empty
RECURSIVE PathStaged(_, _)
PathStaged(pathFields, rq) ==
    IF pathFields = <<>> THEN <<>>
    ELSE LET info == Head(pathFields)
             pathVal == PathValue(rq, info.pathKey)
         IN  (IF pathVal # "" THEN <<<<info.schemaKey, pathVal>>>> ELSE <<>>)
             \o PathStaged(Tail(pathFields), rq)

\* PathBinder.Bind after its call of getStructMeta returned meta: the
\* outcomes of the call (a binder that decodes a map has one for each order
\* of the decoder's range)
PathBindMeta(meta, rq, t, v) ==
    LET values == PathStaged(meta.pathFields, rq)
    IN  IF Len(meta.pathFields) = 0 \/ values = <<>>
        THEN {[v |-> v, err |-> Nil]}
        ELSE SchemaDecode(t, v, values)

\* PathBinder.Bind
PathBind(rq, t, v) == PathBindMeta(getStructMeta(t), rq, t, v)

\* QueryBinder.Bind
QueryBind(rq, t, v) == SchemaDecode(t, v, URLQuery(rq))

\* JsonBinder.Bind: nothing to do without a body object; else one value is
\* decoded from the stream, whose Read fails past the ceiling and which
\* ends (io.EOF) before any value when it holds no bytes.  Decode is called
\* once and returns at the end of the first value: what the stream holds
\* behind it (rq.tail) is not looked at, and bytes behind the value that
\* lie past the ceiling are not read.
JsonBind(b, rq, t, v) ==
    IF rq.Body = "nil" \/ rq.Body = "NoBody" THEN [v |-> v, err |-> Nil]
    ELSE IF ReadValueErr(rq) # Nil
    THEN [v |-> v, err |-> Wrap("bind json error", ReadValueErr(rq))]
    ELSE IF rq.bodyLen = 0
    THEN [v |-> v, err |-> Wrap("bind json error", <<"EOF">>)]
    ELSE LET d == JsonDecodeObject(t, v, rq.body, b.DisallowUnknownFields)
         IN  IF d.err # Nil
             THEN [v |-> d.v, err |-> Wrap("bind json error", d.err)]
             ELSE [v |-> d.v, err |-> Nil]

\* r.ParseMultipartForm(limit) as FormBinder.Bind calls it: the error it
\* returns and the r.Form it leaves.
\*  - urlencoded: ParseForm reads the body of a POST, PUT or PATCH request
\*    and leaves the body of any other method unread; a failed read leaves
\*    PostForm empty, and its error is replaced by http.ErrNotMultipart,
\*    which the multipart step returns for this content type.  r.Form
\*    holds the body values that were read, followed by the query values.
\*  - multipart: ParseForm adds the query values, then ReadForm reads the
\*    parts, whatever the method; a failed read, or a body without any
\*    part, is the error.
\*    r.Form holds the query values followed by the body values.  Without
\*    a boundary parameter no part is read.
\*  - any other media type: ParseForm adds the query values and the
\*    multipart step returns http.ErrNotMultipart.
ParseMultipartForm(rq) ==
    IF MediaType(rq.ct) = CtForm
    THEN [err |-> <<"http.ErrNotMultipart">>,
          Form |-> (IF rq.Method \in {"POST", "PUT", "PATCH"} /\ ReadBodyErr(rq) = Nil
                    THEN rq.body ELSE <<>>) \o URLQuery(rq)]
    ELSE IF MediaType(rq.ct) # <<"multipart/form-data">>
    THEN [err |-> <<"http.ErrNotMultipart">>, Form |-> URLQuery(rq)]
    ELSE IF ~HasBoundary(rq.ct)
    THEN [err |-> <<"http.ErrMissingBoundary">>, Form |-> URLQuery(rq)]
    ELSE IF ReadBodyErr(rq) # Nil
    THEN [err |-> Wrap("multipart: NextPart", ReadBodyErr(rq)), Form |-> URLQuery(rq)]
    ELSE IF rq.bodyLen = 0
    THEN [err |-> Wrap("multipart: NextPart", <<"EOF">>), Form |-> URLQuery(rq)]
    ELSE [err |-> Nil, Form |-> URLQuery(rq) \o rq.body]

\* FormBinder.Bind
FormBind(rq, t, v) ==
    LET p == ParseMultipartForm(rq)
    IN  IF p.err # Nil /\ p.err # <<"http.ErrNotMultipart">>
        THEN {[v |-> v, err |-> Wrap("parse form error", p.err)]}
        ELSE {[v |-> d.v,
               err |-> IF d.err # Nil THEN Wrap("decode form error", d.err) ELSE Nil] :
                 d \in SchemaDecode(t, v, p.Form)}

\* binder.Bind(r, v): the outcomes of the call
BinderBind(b, rq, t, v) ==
    CASE b.name = "path" -> PathBind(rq, t, v)
      [] b.name = "query" -> QueryBind(rq, t, v)
      [] b.name = "json" -> {JsonBind(b, rq, t, v)}
      [] b.name = "form" -> FormBind(rq, t, v)
      [] OTHER -> {[v |-> v, err |-> IF b.fails THEN <<"custom binder error">> ELSE Nil]}


----------------------------------------------------------------------------
(* Errors handed to the error function, and what Error writes for them. *)

\* &HttpError{HttpCode, BizCode, Msg}
HttpError(httpCode, bizCode, msg) ==
    [HttpCode |-> httpCode, BizCode |-> bizCode, Msg |-> msg]

StatusBadRequest == 400
StatusRequestEntityTooLarge == 413
StatusInternalServerError == 500
StatusOK == 200
StatusNoContent == 204
StatusFound == 302
StatusUnauthorized == 401
StatusForbidden == 403
StatusNotFound == 404
StatusConflict == 409
StatusTooManyRequests == 429

ErrRequestEntityTooLarge ==
    HttpError(StatusRequestEntityTooLarge, "REQUEST_ENTITY_TOO_LARGE",
              <<"Request Entity Too Large">>)

\* the error Validate returns for a record the validator rejects
ValidationError == HttpError(StatusBadRequest, "VALIDATION_FAILED", <<"validation failed">>)

\* an error of the business function that carries no HTTP status
\* (HttpCode 0: it is no ErrorCoder)
BusinessError == HttpError(0, "", <<"business error">>)

\* &HttpError{HttpCode: 409, Msg: "Conflict"}: an error of the business
\* function that carries a status and no business code
ConflictError == HttpError(StatusConflict, "", <<"Conflict">>)

\* httpx.ErrUnauthorized, a sentinel error with status and business code
ErrUnauthorized == HttpError(StatusUnauthorized, "UNAUTHORIZED", <<"Unauthorized">>)

\* the business function returns any error: here one without a status, one
\* with a status and no business code, and one of the package's sentinels
BusinessErrors == {BusinessError, ConflictError, ErrUnauthorized}

\* the status Error writes: the error's HTTPStatus when it has one, else 500
ErrorStatus(err) ==
    IF err.HttpCode # 0 THEN err.HttpCode ELSE StatusInternalServerError

\* the error prepare reports for a failed Bind: 413 when a ceiling is set
\* and the error wraps a *http.MaxBytesError, else 400 with the message
BindFailure(c, err) ==
    IF c.maxBodySize > 0 /\ ErrorsAs(err, MaxBytesError)
    THEN ErrRequestEntityTooLarge
    ELSE HttpError(StatusBadRequest, "", err)

----------------------------------------------------------------------------
(* The requests and handlers a behaviour starts from. *)

Values == {"a", "b"}
PathValues == {"p"}

SeqsUpTo(S, n) == UNION {[1..k -> S] : k \in 0..n}

\* the keys a request for type t may carry: every key one of the decoders
\* knows a field of t by, and one key no decoder knows
RequestKeys(t) ==
    UNION {{SchemaAlias(t[i]), JsonName(t[i])} : i \in DOMAIN t} \cup {"x"}

PathKeys(t) == {t[i].path : i \in DOMAIN t} \ {""}

PairLists(t) == SeqsUpTo(RequestKeys(t) \X Values, MaxPairs)

\* the raw query "&": two empty segments
EmptySegments == << <<>>, <<>> >>

\* a request as the server hands it to the handler: a GET without a body
\* or a POST with one
Requests(t) ==
    {[Method |-> IF n = 0 THEN "GET" ELSE "POST",
      path |-> p, RawQuery |-> q, ct |-> ct, body |-> b, bodyLen |-> n,
      Body |-> IF n = 0 THEN "NoBody" ELSE "reader", limit |-> 0, tail |-> ""] :
        p \in [PathKeys(t) -> PathValues \cup {""}],
        q \in PairLists(t) \cup {EmptySegments},
        ct \in ContentTypes,
        b \in PairLists(t),
        n \in 0..MaxBodyLen}

\* only a JSON or form body spells key=value members, and each member
\* takes at least one byte
WellFormed(rq) ==
    /\ Len(rq.body) <= rq.bodyLen
    /\ rq.ct \in {CtNone, CtText} => rq.body = <<>>

\* the config a constructor builds: its defaults changed by WithBinders and
\* WithMaxBodySize; errorHook is the hook of this handler
Configs(chains) ==
    [binders : chains, maxBodySize : 0..MaxCeiling, errorHook : {"hook"}]

CustomBinders ==
    {CustomBinder(ty, m, f) : ty \in {BinderMeta, BinderBody}, m \in BOOLEAN, f \in BOOLEAN}

CustomChains == SeqsUpTo(CustomBinders, MaxBinders) \ {<<>>}

\* the request the custom chains are run on
PlainRequest ==
    [Method |-> "GET",
     path |-> [k \in PathKeys(UserReq) |-> ""], RawQuery |-> <<>>, ct |-> CtNone,
     body |-> <<>>, bodyLen |-> 0, Body |-> "NoBody", limit |-> 0, tail |-> ""]

InitRun ==
    /\ req = Zero(typ)
    /\ pc = "prepare"
    /\ idx = 1
    /\ bodyBound = FALSE
    /\ bindErr = Nil
    /\ calls = <<>>
    /\ fnArg = <<>>
    /\ w = [status |-> 0, kind |-> ""]

\* Default chain, every request
InitDefault ==
    /\ typ \in Types
    /\ cfg \in Configs({Binders})
    /\ r \in {rq \in Requests(typ) : WellFormed(rq)}
    /\ InitRun
    /\ NotPipelineIdle

\* Custom chains (WithBinders), one request
InitCustom ==
    /\ typ = UserReq
    /\ cfg \in Configs(CustomChains)
    /\ r = PlainRequest
    /\ InitRun
    /\ NotPipelineIdle

Init == InitDefault \/ InitCustom

\* no request is being handled
PipelineIdle ==
    /\ typ = UserReq
    /\ cfg = [binders |-> Binders, maxBodySize |-> 0, errorHook |-> "hook"]
    /\ r = PlainRequest
    /\ req = Zero(typ) /\ pc = "done" /\ idx = 1 /\ bodyBound = FALSE
    /\ bindErr = Nil /\ calls = <<>> /\ fnArg = <<>> /\ w = [status |-> 0, kind |-> ""]

----------------------------------------------------------------------------
(* prepare, Bind and the handlers, step by step. *)

\* the list Bind iterates: the default chain when none is given
BindersOf(c) == IF Len(c.binders) = 0 THEN Binders ELSE c.binders

\* CallErrFunc without the return that follows it in prepare: the handler
\* goes on to write its success response
CallErrFuncNoReturn(log, err) ==
    /\ calls' = Append(log, <<"errFunc", err, cfg.errorHook>>)
    /\ w' = [w EXCEPT !.status = ErrorStatus(err), !.kind = "error"]
    /\ pc' = "respond"

\* errFunc(w, r, err, WithHook(cfg.errorHook)) with errFunc = Error, and
\* the return that follows it; log is the calls made before it
CallErrFunc(log, err) ==
    /\ calls' = Append(log, <<"errFunc", err, cfg.errorHook>>)
    /\ w' = [w EXCEPT !.status = ErrorStatus(err), !.kind = "error"]
    /\ pc' = "done"

\* prepare, step 1: the body-size ceiling
InstallCeiling ==
    /\ pc = "prepare"
    /\ r' = IF cfg.maxBodySize > 0 THEN MaxBytesReader(r, cfg.maxBodySize) ELSE r
    /\ pc' = "Bind"
    /\ UNCHANGED <<typ, cfg, req, idx, bodyBound, bindErr, calls, fnArg, w>>
    /\ UNCHANGED notPipeline

\* Bind: the binder does not match
BindNoMatch ==
    /\ pc = "Bind"
    /\ idx <= Len(BindersOf(cfg))
    /\ ~Match(BindersOf(cfg)[idx], r)
    /\ calls' = Append(calls, <<"Match", idx>>)
    /\ idx' = idx + 1
    /\ UNCHANGED <<typ, cfg, r, req, pc, bodyBound, bindErr, fnArg, w>>
    /\ UNCHANGED notPipeline

\* Bind: a matching Body binder after a Body binder has run
BindSkipBody ==
    /\ pc = "Bind"
    /\ idx <= Len(BindersOf(cfg))
    /\ Match(BindersOf(cfg)[idx], r)
    /\ BindersOf(cfg)[idx].type = BinderBody
    /\ bodyBound
    /\ calls' = Append(calls, <<"Match", idx>>)
    /\ idx' = idx + 1
    /\ UNCHANGED <<typ, cfg, r, req, pc, bodyBound, bindErr, fnArg, w>>
    /\ UNCHANGED notPipeline

\* BindCall without the mutual exclusion of Body binders
BindCallNoExclusion ==
    /\ pc = "Bind"
    /\ idx <= Len(BindersOf(cfg))
    /\ LET b == BindersOf(cfg)[idx]
       IN  /\ Match(b, r)
           /\ \E res \in BinderBind(b, r, typ, req) :
               /\ bodyBound' = (bodyBound \/ b.type = BinderBody)
               /\ calls' = calls \o << <<"Match", idx>>, <<"Bind", idx>> >>
               /\ req' = res.v
               /\ bindErr' = res.err
               /\ IF res.err # Nil
                  THEN pc' = "BindFailed" /\ idx' = idx
                  ELSE pc' = pc /\ idx' = idx + 1
    /\ UNCHANGED <<typ, cfg, r, fnArg, w>>
    /\ UNCHANGED notPipeline

\* BindCall that goes on to the next binder after an error
BindCallFallback ==
    /\ pc = "Bind"
    /\ idx <= Len(BindersOf(cfg))
    /\ LET b == BindersOf(cfg)[idx]
       IN  /\ Match(b, r)
           /\ b.type = BinderBody => ~bodyBound
           /\ \E res \in BinderBind(b, r, typ, req) :
               /\ bodyBound' = (bodyBound \/ b.type = BinderBody)
               /\ calls' = calls \o << <<"Match", idx>>, <<"Bind", idx>> >>
               /\ req' = res.v
               /\ bindErr' = res.err
               /\ pc' = pc /\ idx' = idx + 1
    /\ UNCHANGED <<typ, cfg, r, fnArg, w>>
    /\ UNCHANGED notPipeline

\* Bind: the binder matches and runs; its error ends the loop
BindCall ==
    /\ pc = "Bind"
    /\ idx <= Len(BindersOf(cfg))
    /\ LET b == BindersOf(cfg)[idx]
       IN  /\ Match(b, r)
           /\ b.type = BinderBody => ~bodyBound
           /\ \E res \in BinderBind(b, r, typ, req) :
               /\ bodyBound' = (bodyBound \/ b.type = BinderBody)
               /\ calls' = calls \o << <<"Match", idx>>, <<"Bind", idx>> >>
               /\ req' = res.v
               /\ bindErr' = res.err
               /\ IF res.err # Nil
                  THEN pc' = "BindFailed" /\ idx' = idx
                  ELSE pc' = pc /\ idx' = idx + 1
    /\ UNCHANGED <<typ, cfg, r, fnArg, w>>
    /\ UNCHANGED notPipeline

\* Bind returned nil
BindReturn ==
    /\ pc = "Bind"
    /\ idx > Len(BindersOf(cfg))
    /\ pc' = "Validate"
    /\ UNCHANGED <<typ, cfg, r, req, idx, bodyBound, bindErr, calls, fnArg, w>>
    /\ UNCHANGED notPipeline

\* prepare, step 2: Bind returned an error
BindFailed ==
    /\ pc = "BindFailed"
    /\ CallErrFunc(calls, BindFailure(cfg, bindErr))
    /\ UNCHANGED <<typ, cfg, r, req, idx, bodyBound, bindErr, fnArg>>
    /\ UNCHANGED notPipeline

\* prepare, step 3: Validate; the validator accepts the record or not
ValidateStep ==
    /\ pc = "Validate"
    /\ \E ok \in BOOLEAN :
        IF ok
        THEN /\ calls' = Append(calls, <<"Validate">>)
             /\ pc' = "fn"
             /\ w' = w
        ELSE CallErrFunc(Append(calls, <<"Validate">>), ValidationError)
    /\ UNCHANGED <<typ, cfg, r, req, idx, bodyBound, bindErr, fnArg>>
    /\ UNCHANGED notPipeline

\* prepare, step 4: the business function, which returns a result or an
\* error of its own choice; the log keeps what it returned (Nil or <<err>>)
Business ==
    /\ pc = "fn"
    /\ fnArg' = req
    /\ \/ /\ calls' = Append(calls, <<"fn", Nil>>)
          /\ pc' = "respond"
          /\ w' = w
       \/ \E err \in BusinessErrors :
             CallErrFunc(Append(calls, <<"fn", <<err>> >>), err)
    /\ UNCHANGED <<typ, cfg, r, req, idx, bodyBound, bindErr>>
    /\ UNCHANGED notPipeline

\* The closure of the handler after prepare returned ok.  prepare is the
\* same for the three constructors, so which of them built the handler
\* shows only here: there is one action for each.
WriteSuccess(handler, status) ==
    /\ pc = "respond"
    /\ calls' = Append(calls, <<"response", handler>>)
    /\ w' = [w EXCEPT !.status = status, !.kind = handler]
    /\ pc' = "done"
    /\ UNCHANGED <<typ, cfg, r, req, idx, bodyBound, bindErr, fnArg>>
    /\ UNCHANGED notPipeline

\* NewHandler: w.WriteHeader(200) and the JSON envelope
RespondJSON == WriteSuccess("NewHandler", StatusOK)

\* NewStreamHandler: the result's headers and its WriteTo, whose first
\* Write commits status 200
RespondStream == WriteSuccess("NewStreamHandler", StatusOK)

\* the results a NewResponder function returns, by the status their
\* WriteResponse writes: NoContent{204}, Redirect{URL, 302},
\* RawBytes{Status: 200}
Responders ==
    {[type |-> "NoContent", Status |-> StatusNoContent],
     [type |-> "Redirect", Status |-> StatusFound],
     [type |-> "RawBytes", Status |-> StatusOK]}

\* NewResponder: the result's WriteResponse, which writes the status
RespondResponder ==
    \E res \in Responders : WriteSuccess("NewResponder", res.Status)

Next ==
    \/ InstallCeiling
    \/ BindNoMatch
    \/ BindSkipBody
    \/ BindCall
    \/ BindReturn
    \/ BindFailed
    \/ ValidateStep
    \/ Business
    \/ RespondJSON
    \/ RespondStream
    \/ RespondResponder

Spec == Init /\ [][Next]_vars


----------------------------------------------------------------------------
(* What the calls made so far say. *)

\* the positions in calls of the calls of the given kind
CallsOf(kind) == {k \in DOMAIN calls : calls[k][1] = kind}

\* the binders whose Bind (whose Match) was invoked
Bound == {calls[k][2] : k \in CallsOf("Bind")}
Matched == {calls[k][2] : k \in CallsOf("Match")}

\* the binders Bind's loop is done with
Passed == {j \in DOMAIN BindersOf(cfg) : j < idx \/ (j = idx /\ pc \in {"BindFailed", "done"} /\ bindErr # Nil)}

\* the errors binder j can return on this request (no binder's error
\* depends on the record)
ErrsOf(j) == {res.err : res \in BinderBind(BindersOf(cfg)[j], r, typ, Zero(typ))}

----------------------------------------------------------------------------
(* Claims about Bind. *)

\* C1: in Bind at most one binder of type BinderBody has its Bind invoked
\* per call: a matching Body binder the loop has passed was invoked exactly
\* when no Body binder before it matched, and every matching BinderMeta
\* binder the loop has passed was invoked.
C1_BodyMutualExclusion ==
    LET B == BindersOf(cfg)
    IN  /\ Cardinality({j \in Bound : B[j].type = BinderBody}) <= 1
        /\ \A j \in Passed :
            /\ (B[j].type = BinderMeta /\ Match(B[j], r)) => j \in Bound
            /\ (B[j].type = BinderBody /\ Match(B[j], r)) =>
                  (j \in Bound <=>
                     ~\E h \in 1..(j - 1) : B[h].type = BinderBody /\ Match(B[h], r))

\* C1 witness: Bind returned after a chain with two matching Body binders
\* and a matching Meta binder behind them; the first Body binder and the
\* Meta binder ran, the second Body binder did not.
C1_Witness ==
    LET B == BindersOf(cfg)
    IN  /\ pc = "Validate"
        /\ Len(B) = 3
        /\ B[1].type = BinderBody /\ B[2].type = BinderBody /\ B[3].type = BinderMeta
        /\ \A j \in 1..3 : Match(B[j], r)
        /\ Bound = {1, 3}

\* C2: binders are tried in the declared order, and the first binder whose
\* Bind returns an error ends the call: that error is what Bind returns and
\* no binder behind it has Match or Bind invoked.
C2_FirstErrorEndsBind ==
    LET bound == Bound
        matched == Matched
    IN  /\ \A k, l \in CallsOf("Match") \cup CallsOf("Bind") :
              k < l => calls[k][2] <= calls[l][2]
        /\ matched = {j \in DOMAIN BindersOf(cfg) : j < idx} \cup
                      (IF bindErr # Nil THEN {idx} ELSE {})
        /\ \A j \in bound :
              LET errs == ErrsOf(j)
              IN  Nil \notin errs =>
                     /\ bindErr \in errs
                     /\ idx = j
                     /\ pc \in {"BindFailed", "done"}
                     /\ \A h \in matched \cup bound : h <= j
        /\ bindErr # Nil => idx \in bound /\ bindErr \in ErrsOf(idx)

\* C2 witness: the second of three matching binders failed; the call is
\* over and the third was never asked.
C2_Witness ==
    LET B == BindersOf(cfg)
    IN  /\ pc = "done"
        /\ Len(B) = 3
        /\ \A j \in 1..3 : Match(B[j], r) /\ B[j].type = BinderMeta
        /\ ErrsOf(1) = {Nil} /\ Nil \notin ErrsOf(2)
        /\ Bound = {1, 2} /\ Matched = {1, 2}
        /\ bindErr \in ErrsOf(2)


----------------------------------------------------------------------------
(* What a request supplies for a field of the record. *)

\* the content type declares a JSON media type, form data
IsJson(ct) == MediaType(ct) = <<"application/json">>
IsForm(ct) == MediaType(ct) \in {CtForm, <<"multipart/form-data">>}

\* the members of the JSON body that are decoded into field i
JsonMembers(i) == SelectSeq(r.body, LAMBDA p : i \in JsonFieldOf(typ, p[1]))

\* the keys of the pairs the schema decoder takes for field i
KeysFor(i, pairs) == {k \in KeysIn(pairs) : SchemaField(typ, k) = i}

PathSupplies(i) == typ[i].path # "" /\ PathValue(r, typ[i].path) # ""
QuerySupplies(i) == KeysFor(i, URLQuery(r)) # {}
JsonSupplies(i) == IsJson(r.ct) /\ JsonMembers(i) # <<>>
FormSupplies(i) == IsForm(r.ct) /\ KeysFor(i, r.body) # {}
BodySupplies(i) == JsonSupplies(i) \/ FormSupplies(i)

PathValueFor(i) == PathValue(r, typ[i].path)
JsonValueFor(i) == Last(JsonMembers(i))[2]
\* the values the form body gives field i: the last value of each of its keys
FormValuesFor(i) == {Last(ValuesOf(r.body, k)) : k \in KeysFor(i, r.body)}
BodyValuesFor(i) == IF JsonSupplies(i) THEN {JsonValueFor(i)} ELSE FormValuesFor(i)

\* Bind has returned nil for the default chain
BoundByDefaultChain == cfg.binders = Binders /\ pc = "Validate"

----------------------------------------------------------------------------
(* Claims about the precedence of the sources. *)

\* C3 (as documented in the README): with the default chain the priority
\* Path > Body > Query holds: a field that the path and another source
\* supply keeps the path value, and a field that body and query supply (and
\* the path does not) keeps the body value.
C3_PathOverBodyOverQuery ==
    BoundByDefaultChain =>
        \A i \in DOMAIN typ :
            /\ (PathSupplies(i) /\ (BodySupplies(i) \/ QuerySupplies(i)))
                  => req[i] = PathValueFor(i)
            /\ (~PathSupplies(i) /\ BodySupplies(i) /\ QuerySupplies(i))
                  => req[i] \in BodyValuesFor(i)

\* C4: with the default order, a field that both the query and the JSON
\* body set holds the JSON value after Bind.
C4_JsonOverQuery ==
    BoundByDefaultChain =>
        \A i \in DOMAIN typ :
            (JsonSupplies(i) /\ QuerySupplies(i)) => req[i] = JsonValueFor(i)

\* C4 witness: ?name=a with the body {"name":"b"} was bound, Name is "b".
C4_Witness ==
    /\ BoundByDefaultChain
    /\ typ = UserReq
    /\ PathSupplies(1)
    /\ URLQuery(r) = << <<"name", "a">> >>
    /\ r.ct = CtJson /\ r.body = << <<"name", "b">> >>
    /\ req[2] = "b"

\* C5: with the default order, a field that both the query and a
\* URL-encoded or multipart form body set holds the form-body value after
\* Bind.
C5_FormOverQuery ==
    BoundByDefaultChain =>
        \A i \in DOMAIN typ :
            (FormSupplies(i) /\ QuerySupplies(i)) => req[i] \in FormValuesFor(i)

\* the field's declared key is the ignore marker, through its form tag or
\* through its json tag
Ignored(f) == TagKey(f.form) = "-" \/ TagKey(f.json) = "-"

\* C6: a field whose form tag or json tag has the key "-" is never
\* populated, and the descriptor lists it nowhere: not in pathFields, not in
\* fileFields, not as a credential field, and "-" is no entry of the key
\* list.
C6_IgnoredFieldNeverPopulated ==
    LET meta == getStructMeta(typ)
    IN  \A i \in DOMAIN typ : Ignored(typ[i]) =>
            /\ req[i] = ""
            /\ \A k \in DOMAIN meta.pathFields : meta.pathFields[k].fieldIdx # i
            /\ \A k \in DOMAIN meta.fileFields : meta.fileFields[k].fieldIdx # i
            /\ meta.clientIDIdx # i /\ meta.clientSecretIdx # i
            /\ \A k \in DOMAIN meta.formKeys : meta.formKeys[k] # "-"


----------------------------------------------------------------------------
(* Claims about the request pipeline. *)

\* the body binder's read of the body was cut off by the ceiling
TruncatedRead ==
    \E j \in Bound :
        /\ BindersOf(cfg)[j].type = BinderBody
        /\ IF BindersOf(cfg)[j].name = "json" THEN ReadValueErr(r) # Nil
           ELSE ReadBodyErr(r) # Nil

\* the error function's calls: <<"errFunc", err, hook>>
ErrFuncCalls == CallsOf("errFunc")
Responses == CallsOf("response")

\* C7: with a positive ceiling, a request whose body is longer than the
\* ceiling ends in the size-exceeded failure (413, ErrRequestEntityTooLarge)
\* whatever its Content-Type.
C7_OversizedBodyIs413 ==
    (pc = "done" /\ cfg.maxBodySize > 0 /\ r.bodyLen > cfg.maxBodySize) =>
        /\ w.status = StatusRequestEntityTooLarge
        /\ \E k \in ErrFuncCalls : calls[k][2] = ErrRequestEntityTooLarge

\* C8: for a JSON request whose body has zero bytes JsonBinder.Bind returns
\* nil and leaves the record as it was, with and without the ceiling
\* installed on the body.
C8_EmptyJsonBodyIsNoOp ==
    \A j \in Bound :
        (BindersOf(cfg)[j].name = "json" /\ r.bodyLen = 0) =>
            /\ bindErr = Nil
            /\ pc # "BindFailed"
            /\ (pc = "Validate" =>
                   \E p \in PathBind(r, typ, Zero(typ)) :
                       \E q \in QueryBind(r, typ, p.v) : req = q.v)

\* the stages in order: the validator runs only after Bind returned nil,
\* the business function at most once and only after Validate returned nil,
\* and an error function call is the last call of the request
StagesInOrder ==
    /\ \A k \in CallsOf("Validate") :
          /\ bindErr = Nil
          /\ \A l \in CallsOf("Match") \cup CallsOf("Bind") : l < k
          /\ Matched = DOMAIN BindersOf(cfg)
    /\ Cardinality(CallsOf("Validate")) <= 1
    /\ Cardinality(CallsOf("fn")) <= 1
    /\ \A k \in CallsOf("fn") :
          /\ bindErr = Nil
          /\ k > 1 /\ calls[k - 1] = <<"Validate">>
          /\ fnArg = req
    /\ \A k \in ErrFuncCalls : k = Len(calls)

\* C9: the stages run in the order bind, validate, business function: the
\* validator runs only after Bind returned nil, the business function runs
\* at most once and only after Bind and Validate returned nil, nothing runs
\* after a failed stage, and so the business function never gets a record
\* from a failed or truncated bind.
C9_StageOrder ==
    /\ StagesInOrder
    /\ CallsOf("fn") # {} => (bindErr = Nil /\ ~TruncatedRead)

\* the error prepare hands to the error function for the stage that failed
FailedStageError ==
    IF bindErr # Nil THEN BindFailure(cfg, bindErr)
    ELSE IF CallsOf("fn") # {}
         THEN LET k == CHOOSE k \in CallsOf("fn") : TRUE IN calls[k][2][1]
    ELSE ValidationError

\* C10: a handled request ends in exactly one of two ways: the error
\* function was invoked once, with the error of the failed stage and the
\* handler's hook, and no success response was written; or it was not
\* invoked and the success response was written.  Before the end neither
\* has happened twice nor both.
C10_OneFunnel ==
    /\ Cardinality(ErrFuncCalls) + Cardinality(Responses) <= 1
    /\ pc = "done" => Cardinality(ErrFuncCalls) + Cardinality(Responses) = 1
    /\ bindErr # Nil /\ pc = "done" => ErrFuncCalls # {}
    /\ \A k \in ErrFuncCalls :
          /\ calls[k] = <<"errFunc", FailedStageError, cfg.errorHook>>
          /\ w.kind = "error" /\ w.status = ErrorStatus(FailedStageError)
          /\ pc = "done"
    /\ \A k \in Responses :
          /\ w.kind = calls[k][2]
          /\ w.kind \in {"NewHandler", "NewStreamHandler"} => w.status = StatusOK
          /\ w.kind = "NewResponder" => w.status \in {res.Status : res \in Responders}
          /\ bindErr = Nil /\ CallsOf("fn") # {}

\* C10 witness: a request whose bind failed has ended; the error function
\* was called once, with the 400 error made of the bind error and with the
\* handler's hook, and no success response was written.
C10_Witness ==
    /\ pc = "done"
    /\ bindErr # Nil
    /\ Cardinality(ErrFuncCalls) = 1 /\ Responses = {}
    /\ calls[Len(calls)] = <<"errFunc", BindFailure(cfg, bindErr), "hook">>
    /\ w.status = StatusBadRequest


----------------------------------------------------------------------------
(* getStructMeta called from several tasks at once.  The cache is an       *)
(* xsync.Map: Load and LoadOrStore are atomic steps, the parse between    *)
(* them touches nothing shared.                                            *)

\* the tasks that call getStructMeta
MaxTasks == 3
Tasks == 1..MaxTasks

\* the reflect.Type a caller passes: a struct type or the pointer to one
TypeArgs == [ptr : BOOLEAN, elem : Types]

\* the key a call uses without taking the pointer's element type
NoElem(t) == t

\* "if t.Kind() == reflect.Ptr { t = t.Elem() }": the key of the cache
Elem(t) == [t EXCEPT !.ptr = FALSE]

\* the slow path's result for key t: the fields are walked only when t is a
\* struct type
ParseMeta(t) == IF t.ptr THEN EmptyMeta ELSE getStructMeta(t.elem)

InitCache ==
    /\ metaCache = <<>>
    /\ getting \in [Tasks -> [t : TypeArgs, pc : {"Load"}, meta : {Nil}, ret : {Nil}]]

\* every call starts with the cache empty
InitGet ==
    /\ InitCache
    /\ PipelineIdle
    /\ CallIdle
    /\ ShutdownIdle

\* step 1 of task k: metaCache.Load(t), returning on a hit
MetaLoad(k) ==
    /\ getting[k].pc = "Load"
    /\ LET t == Elem(getting[k].t)
       IN  getting' = [getting EXCEPT ![k] =
               IF t \in DOMAIN metaCache
               THEN [@ EXCEPT !.pc = "done", !.ret = metaCache[t]]
               ELSE [@ EXCEPT !.pc = "parse"]]
    /\ UNCHANGED <<metaCache, notCache>>

\* step 2 of task k: a new structMeta, filled from the type's fields
MetaParse(k) ==
    /\ getting[k].pc = "parse"
    /\ getting' = [getting EXCEPT ![k] =
           [@ EXCEPT !.pc = "LoadOrStore",
                     !.meta = [by |-> k, content |-> ParseMeta(Elem(getting[k].t))]]]
    /\ UNCHANGED <<metaCache, notCache>>

\* a step 3 that stores with metaCache.Store(t, meta) and returns meta
MetaStore(k) ==
    /\ getting[k].pc = "LoadOrStore"
    /\ LET t == Elem(getting[k].t)
       IN  /\ metaCache' = [u \in DOMAIN metaCache \cup {t} |->
                              IF u = t THEN getting[k].meta ELSE metaCache[u]]
           /\ getting' = [getting EXCEPT ![k] =
                  [@ EXCEPT !.pc = "done", !.ret = getting[k].meta]]
    /\ UNCHANGED notCache

\* step 3 of task k: metaCache.LoadOrStore(t, meta), returning the entry
\* the cache holds afterwards
MetaLoadOrStore(k) ==
    /\ getting[k].pc = "LoadOrStore"
    /\ LET t == Elem(getting[k].t)
           actual == IF t \in DOMAIN metaCache THEN metaCache[t] ELSE getting[k].meta
       IN  /\ metaCache' = [u \in DOMAIN metaCache \cup {t} |->
                              IF u = t THEN actual ELSE metaCache[u]]
           /\ getting' = [getting EXCEPT ![k] = [@ EXCEPT !.pc = "done", !.ret = actual]]
    /\ UNCHANGED notCache

\* one step of task k's call
GetStep(k) == MetaLoad(k) \/ MetaParse(k) \/ MetaLoadOrStore(k)

NextGet ==
    \/ \E k \in Tasks : MetaLoad(k)
    \/ \E k \in Tasks : MetaParse(k)
    \/ \E k \in Tasks : MetaLoadOrStore(k)

SpecGet == InitGet /\ [][NextGet]_vars

\* the calls that have returned
Returned == {k \in Tasks : getting[k].pc = "done"}

\* C11: concurrent calls of getStructMeta for one type, started with the
\* cache empty, return descriptors of equal content (the descriptor of the
\* type) under every interleaving; a call that has not returned can always
\* take its next step, whatever the other calls are doing; and when all have
\* returned the cache holds exactly one entry for each type asked for.
C11_ConcurrentGetStructMeta ==
    /\ \A k, l \in Returned :
          getting[k].t.elem = getting[l].t.elem =>
              getting[k].ret.content = getting[l].ret.content
    /\ \A k \in Returned :
          getting[k].ret.content = getStructMeta(getting[k].t.elem)
    /\ \A k \in Tasks \ Returned : ENABLED GetStep(k)
    /\ Returned = Tasks =>
          \A ty \in Types :
              Cardinality({u \in DOMAIN metaCache : u.elem = ty}) =
                  IF \E k \in Tasks : getting[k].t.elem = ty THEN 1 ELSE 0

\* C11 witness: three calls for one type, by value and by pointer, have all
\* returned; two of them had parsed the type (both missed the cache), one
\* descriptor was stored and all three got equal content.
C11_Witness ==
    /\ Returned = Tasks
    /\ \A k \in Tasks : getting[k].t.elem = UserReq
    /\ \E k, l \in Tasks : getting[k].t.ptr /\ ~getting[l].t.ptr
    /\ Cardinality({k \in Tasks : getting[k].meta # Nil}) >= 2
    /\ Cardinality(DOMAIN metaCache) = 1
    /\ \A k, l \in Tasks : getting[k].ret.content = getting[l].ret.content


----------------------------------------------------------------------------
(* ClientAuthBinder: client_id and client_secret from HTTP Basic Auth.     *)

\* the call has not returned
Pending == [pending |-> TRUE]

\* types with credential fields: both named by the descriptor (through the
\* form tag and through the json tag); the client_id field hidden from the
\* descriptor by form:"-"; two fields that both claim the key client_id
ClientReq ==
    << Field("ClientID", <<"client_id">>, <<"">>, ""),
       Field("ClientSecret", <<"">>, <<"client_secret">>, ""),
       Field("Scope", <<"scope">>, <<"">>, "") >>

HiddenClientReq ==
    << Field("ClientID", <<"-">>, <<"client_id">>, ""),
       Field("ClientSecret", <<"client_secret">>, <<"">>, "") >>

TwoClientReq ==
    << Field("Primary", <<"client_id">>, <<"">>, ""),
       Field("Secondary", <<"">>, <<"client_id">>, "") >>

ClientTypes == {ClientReq, HiddenClientReq, TwoClientReq, UserReq}

\* an Authorization header: its scheme and what follows it, either a
\* base64 text of "user:password", given as <<user, password>>, or a text
\* that is none ("!")
BasicUsers == {"", "u"}
BasicPasswords == {"", "s"}
AuthHeaders ==
    {[scheme |-> "", cred |-> ""]} \cup
    [scheme : {"Basic", "Bearer"}, cred : (BasicUsers \X BasicPasswords) \cup {"!"}]

\* r.BasicAuth(): the header must be of scheme Basic and decode to
\* user:password
BasicAuth(h) ==
    IF EqualFold(h.scheme, "Basic") /\ h.cred # "!" /\ h.cred # ""
    THEN [uid |-> h.cred[1], pwd |-> h.cred[2], ok |-> TRUE]
    ELSE [uid |-> "", pwd |-> "", ok |-> FALSE]

\* ClientAuthBinder.Match: the header starts with "Basic "
ClientAuthMatch(h) == EqualFold(h.scheme, "Basic")

\* field i of v set to x whatever it holds
FillAlways(v, i, x) ==
    IF i # -1 /\ x # "" THEN [v EXCEPT ![i] = x] ELSE v

\* field i of v set to x "if field.String() == ''", for i # -1, x # ""
FillEmpty(v, i, x) ==
    IF i # -1 /\ x # "" /\ v[i] = "" THEN [v EXCEPT ![i] = x] ELSE v

\* ClientAuthBinder.Bind on a request with Authorization header h and the
\* record v of type t
ClientAuthBind(h, t, v) ==
    LET a == BasicAuth(h)
        meta == getStructMeta(t)
    IN  IF ~a.ok THEN [v |-> v, err |-> Nil]
        ELSE [v |-> FillEmpty(FillEmpty(v, meta.clientIDIdx, a.uid),
                              meta.clientSecretIdx, a.pwd),
              err |-> Nil]

\* the records of type t, empty and populated fields
Records(t) == [DOMAIN t -> Values \cup {""}]

InitClientAuth ==
    /\ \E h \in AuthHeaders, t \in ClientTypes :
          \E v \in Records(t) :
              call = [op |-> "ClientAuthBinder.Bind", h |-> h, t |-> t, v |-> v]
    /\ ret = Pending
    /\ PipelineIdle
    /\ CacheIdle
    /\ ShutdownIdle

CallClientAuthBind ==
    /\ call.op = "ClientAuthBinder.Bind"
    /\ ret = Pending
    /\ ret' = ClientAuthBind(call.h, call.t, call.v)
    /\ UNCHANGED <<call, notCall>>

NextClientAuth == CallClientAuthBind

SpecClientAuth == InitClientAuth /\ [][NextClientAuth]_vars

\* the first exported field of t whose key (form tag, else json tag, else
\* name) is key and whose form tag is not "-": the field the descriptor
\* names for key, -1 when there is none
NamedField(t, key) ==
    LET named == {i \in DOMAIN t : ~MetaSkips(t[i]) /\ MapKey(t[i]) = key}
    IN  IF named = {} THEN -1 ELSE CHOOSE i \in named : \A j \in named : i <= j

\* C13: ClientAuthBinder.Bind never overwrites a populated field: a
\* client_id or client_secret field that is not empty before the call has
\* the same value after it; an empty one is set to the Basic user (resp.
\* password) exactly when that value is not empty and the descriptor names
\* the field; every other field is unchanged; the call returns nil.
C13_ClientAuthFillsOnlyEmpty ==
    ret # Pending =>
        LET a == BasicAuth(call.h)
            id == NamedField(call.t, "client_id")
            secret == NamedField(call.t, "client_secret")
        IN  /\ ret.err = Nil
            /\ \A i \in DOMAIN call.t :
                  /\ call.v[i] # "" => ret.v[i] = call.v[i]
                  /\ (call.v[i] = "" /\ i = id /\ a.ok /\ a.uid # "") => ret.v[i] = a.uid
                  /\ (call.v[i] = "" /\ i = secret /\ a.ok /\ a.pwd # "") => ret.v[i] = a.pwd
                  /\ ~((i = id /\ a.ok /\ a.uid # "") \/ (i = secret /\ a.ok /\ a.pwd # ""))
                        => ret.v[i] = call.v[i]

\* C13 witness: Basic u:s on a ClientReq whose client_id is already "a" and
\* whose client_secret is empty: client_id stays "a", client_secret is "s".
C13_Witness ==
    /\ ret # Pending
    /\ call.t = ClientReq
    /\ BasicAuth(call.h) = [uid |-> "u", pwd |-> "s", ok |-> TRUE]
    /\ call.v[1] = "a" /\ call.v[2] = ""
    /\ ret.v[1] = "a" /\ ret.v[2] = "s" /\ ret.v[3] = call.v[3]


----------------------------------------------------------------------------
(* JSON bodies with data behind the first value.                           *)

\* what may follow the JSON object in a body: nothing, or one more byte
\* that is not whitespace
Tails == {"", "x"}

\* JSON requests for type t: the object's members, what follows the
\* object, and at least one byte for the object itself
JsonRequests(t) ==
    {[Method |-> "POST",
      path |-> p, RawQuery |-> q, ct |-> ct, body |-> b, bodyLen |-> n,
      Body |-> "reader", limit |-> 0, tail |-> tl] :
        p \in [PathKeys(t) -> PathValues \cup {""}],
        q \in PairLists(t),
        ct \in {CtJson, CtJsonCharset, CtJsonp},
        b \in PairLists(t),
        n \in 1..MaxBodyLen,
        tl \in Tails}

\* JSON requests handled with the default chain, and the custom chains
InitJson ==
    \/ /\ typ \in Types
       /\ cfg \in Configs({Binders})
       /\ r \in {rq \in JsonRequests(typ) :
                    Len(rq.body) + Len(SelectSeq(<<rq.tail>>, LAMBDA x : x # "")) < rq.bodyLen}
       /\ InitRun
       /\ NotPipelineIdle
    \/ InitCustom

SpecJson == InitJson /\ [][Next]_vars

\* C12: with the default configuration the JSON binder rejects trailing
\* bytes after the first JSON value: for a JSON body that is a valid object
\* followed by further non-whitespace data, read within the ceiling, Bind
\* returns a decode error, and the request ends with status 400.
C12_TrailingBytesRejected ==
    (/\ cfg.binders = Binders
     /\ IsJson(r.ct) /\ r.tail # ""
     /\ JsonDecodeObject(typ, Zero(typ), r.body, TRUE).err = Nil
     /\ ReadBodyErr(r) = Nil
     /\ \E j \in Bound : BindersOf(cfg)[j].name = "json")
    => /\ bindErr # Nil
       /\ pc = "done" => w.status = StatusBadRequest


----------------------------------------------------------------------------
(* Path values converted to the field's type.                              *)

\* a field of kind int
IntField(name, form, json, path) == [Field(name, form, json, path) EXCEPT !.kind = "int"]

\* type ItemReq struct { ID int `path:"id"`; Slug string `path:"slug"` }
ItemReq ==
    << IntField("ID", <<"">>, <<"">>, "id"),
       Field("Slug", <<"">>, <<"">>, "slug") >>

\* the texts a route hands over for {id}, and the values of a query
ItemIDs == {"", "42", "101", "abc"}
ItemQueryValues == {"7", "a"}

\* the query ?id=7&ID=101: two keys of the map url.Values, both of which
\* the decoder takes for the field ID
FoldedQuery == << <<"id", "7">>, <<"ID", "101">> >>

\* requests without a body for ItemReq
ItemRequests ==
    {[Method |-> "GET",
      path |-> p, RawQuery |-> q, ct |-> CtNone, body |-> <<>>, bodyLen |-> 0,
      Body |-> "NoBody", limit |-> 0, tail |-> ""] :
        p \in {[id |-> i, slug |-> sl] : i \in ItemIDs, sl \in PathValues \cup {""}},
        q \in SeqsUpTo(RequestKeys(ItemReq) \X ItemQueryValues, MaxPairs)
                \cup {FoldedQuery}}

\* the methods of a request that carries a urlencoded body
Methods == {"GET", "POST", "PUT", "PATCH", "DELETE"}

\* requests for ItemReq with the urlencoded body Slug=a, with and without
\* the query ?Slug=b
ItemFormRequests ==
    {[Method |-> m,
      path |-> [id |-> "42", slug |-> ""], RawQuery |-> q, ct |-> CtForm,
      body |-> << <<"Slug", "a">> >>, bodyLen |-> 1,
      Body |-> "reader", limit |-> 0, tail |-> ""] :
        m \in Methods,
        q \in {<<>>, << <<"Slug", "b">> >>}}

\* ItemReq requests handled with the default chain, and the custom chains
InitItem ==
    \/ /\ typ = ItemReq
       /\ cfg \in Configs({Binders})
       /\ r \in ItemRequests \cup ItemFormRequests
       /\ InitRun
       /\ NotPipelineIdle
    \/ InitCustom

SpecItem == InitItem /\ [][Next]_vars

\* C14: for the field ID int with path annotation id: once Bind has
\* returned nil on a request whose path value is "42", ID is 42; a path
\* value that does not convert makes PathBinder.Bind return an error, which
\* ends Bind, is reported with status 400, and neither the validator nor
\* the business function runs.
C14_PathValueConverted ==
    (typ = ItemReq /\ cfg.binders = Binders) =>
        /\ (pc = "Validate" /\ PathValue(r, "id") = "42") => req[1] = 42
        /\ (PathValue(r, "id") # "" /\ ~ParseInt(PathValue(r, "id")).ok /\ 1 \in Bound)
              => /\ bindErr # Nil
                 /\ \E p \in PathBind(r, typ, Zero(typ)) : bindErr = p.err
                 /\ Bound = {1} /\ Matched = {1}
                 /\ pc \in {"BindFailed", "done"}
                 /\ CallsOf("Validate") = {} /\ CallsOf("fn") = {}
                 /\ pc = "done" =>
                       /\ w.status = StatusBadRequest
                       /\ calls[Len(calls)] =
                              <<"errFunc", HttpError(StatusBadRequest, "", bindErr), cfg.errorHook>>

\* the request with path value id=abc has ended: the path binder's
\* conversion error was reported with status 400 and the business function
\* did not run
PathConversionErrorReported ==
    /\ typ = ItemReq /\ cfg.binders = Binders
    /\ PathValue(r, "id") = "abc"
    /\ pc = "done"
    /\ bindErr = <<"schema: error converting value">>
    /\ w.status = StatusBadRequest
    /\ CallsOf("fn") = {}

\* the request with path value id=42 and no query was bound: ID is 42
PathValue42Bound ==
    /\ typ = ItemReq /\ cfg.binders = Binders
    /\ PathValue(r, "id") = "42" /\ URLQuery(r) = <<>>
    /\ pc = "Validate"
    /\ req[1] = 42

\* the request /items/42?ID=7 was bound: the query binder, which runs after
\* the path binder, has put 7 in ID
PathValue42Overwritten ==
    /\ typ = ItemReq /\ cfg.binders = Binders
    /\ PathValue(r, "id") = "42" /\ URLQuery(r) = << <<"ID", "7">> >>
    /\ pc = "Validate"
    /\ req[1] = 7

\* a urlencoded body is bound from a POST, PUT or PATCH request and left
\* unread in a request of any other method
FormBodyOfMethod ==
    (typ = ItemReq /\ cfg.binders = Binders /\ r \in ItemFormRequests
       /\ URLQuery(r) = <<>> /\ pc = "Validate")
    => req[2] = IF r.Method \in {"POST", "PUT", "PATCH"} THEN "a" ELSE ""


----------------------------------------------------------------------------
(* ShutdownManager: the requests its Middleware tracks, the callbacks they *)
(* register, and the calls of Shutdown.                                    *)

\* the requests that go through the middleware, numbered in the order in
\* which they come to it; the callbacks the requests register at most, all
\* together; the calls of Shutdown, numbered in the order in which they
\* take m.mu
MaxSessions == 2
MaxCallbacks == 3
MaxShutdowns == 2

Sessions == 1..MaxSessions
Callers == 1..MaxShutdowns

\* a goroutine of Shutdown that was not started
NoWorker == [st |-> "none", of |-> 0, cbs |-> <<>>, i |-> 0]

\* xid starts its counter at a random 24-bit value: the smallest and the
\* largest one are taken
InitShutdownManager ==
    /\ inflight = [s \in Sessions |-> "new"]
    /\ objectIDCounter \in {0, 16777215}
    /\ sessionID = [s \in Sessions |-> ""]
    /\ activeHandlers = <<>>
    /\ callbacks = [s \in Sessions |-> <<>>]
    /\ closed = FALSE
    /\ down = [c \in Callers |->
                  [pc |-> "idle", ctx |-> "live", ret |-> "", ran |-> FALSE,
                   atCall |-> <<>>, seen |-> {}]]
    /\ worker = [s \in Sessions |-> NoWorker]
    /\ executed = [s \in Sessions |-> <<>>]

InitShutdown ==
    /\ InitShutdownManager
    /\ PipelineIdle
    /\ CacheIdle
    /\ CallIdle

\* Middleware, before next.ServeHTTP: xid.New() adds one to its counter and
\* makes the id from the counter's low 24 bits, to which the counter is kept
\* here (and from the time, machine and process, which are left out); the
\* request's session is stored under the id, replacing what the map held
\* under it
SessionBegin(s) ==
    /\ inflight[s] = "new"
    /\ \A q \in 1..(s - 1) : inflight[q] # "new"
    /\ objectIDCounter' = (objectIDCounter + 1) % 16777216
    /\ sessionID' = [sessionID EXCEPT ![s] = ToString(objectIDCounter')]
    /\ activeHandlers' = (sessionID'[s] :> s) @@ activeHandlers
    /\ inflight' = [inflight EXCEPT ![s] = "handling"]
    /\ UNCHANGED <<callbacks, closed, down, worker, executed, notShutdown>>

\* RegisterOnShutdown(ctx, fn) inside the handler of request s: the adder
\* appends fn to the session's callbacks, under the session's lock
RegisterOnShutdown(s) ==
    /\ inflight[s] = "handling"
    /\ Cardinality({<<q, k>> \in Sessions \X (1..MaxCallbacks) :
                        k <= Len(callbacks[q])}) < MaxCallbacks
    /\ callbacks' = [callbacks EXCEPT ![s] = Append(@, Len(@) + 1)]
    /\ UNCHANGED <<inflight, objectIDCounter, sessionID, activeHandlers, closed,
                   down, worker, executed, notShutdown>>

\* Middleware, after next.ServeHTTP returned: defer m.activeHandlers.Delete
SessionEnd(s) ==
    /\ inflight[s] = "handling"
    /\ inflight' = [inflight EXCEPT ![s] = "finished"]
    /\ activeHandlers' = [key \in DOMAIN activeHandlers \ {sessionID[s]} |->
                              activeHandlers[key]]
    /\ UNCHANGED <<objectIDCounter, sessionID, callbacks, closed, down, worker,
                   executed, notShutdown>>

\* a Middleware that calls Delete after next.ServeHTTP, without defer: a
\* panic of the handler leaves the session stored
SessionPanicNoDefer(s) ==
    /\ inflight[s] = "handling"
    /\ inflight' = [inflight EXCEPT ![s] = "finished"]
    /\ UNCHANGED <<objectIDCounter, sessionID, activeHandlers, callbacks, closed,
                   down, worker, executed, notShutdown>>

\* Middleware, next.ServeHTTP panics: the deferred Delete runs while the
\* panic unwinds, and the request has left the middleware
SessionPanic(s) ==
    /\ inflight[s] = "handling"
    /\ inflight' = [inflight EXCEPT ![s] = "finished"]
    /\ activeHandlers' = [key \in DOMAIN activeHandlers \ {sessionID[s]} |->
                              activeHandlers[key]]
    /\ UNCHANGED <<objectIDCounter, sessionID, callbacks, closed, down, worker,
                   executed, notShutdown>>

\* a Shutdown without the closed flag: every call closes and runs callbacks
ShutdownEnterAlways(c) ==
    /\ down[c].pc = "idle"
    /\ \A q \in 1..(c - 1) : down[q].pc # "idle"
    /\ down' = [down EXCEPT ![c] =
           [@ EXCEPT !.pc = "Range", !.ran = TRUE,
                     !.atCall = [s \in {activeHandlers[key] : key \in DOMAIN activeHandlers}
                                        |-> callbacks[s]]]]
    /\ closed' = TRUE
    /\ UNCHANGED <<inflight, objectIDCounter, sessionID, activeHandlers, callbacks,
                   worker, executed, notShutdown>>

\* Shutdown(ctx) is called and passes its locked section: a closed manager
\* makes it return nil, else it closes the manager.  For the call that
\* closes the manager, ran is set and atCall notes the sessions active at
\* the call with the callbacks they had registered.
ShutdownEnter(c) ==
    /\ down[c].pc = "idle"
    /\ \A q \in 1..(c - 1) : down[q].pc # "idle"
    /\ down' = [down EXCEPT ![c] =
           IF closed
           THEN [@ EXCEPT !.pc = "returned", !.ret = "nil"]
           ELSE [@ EXCEPT !.pc = "Range", !.ran = TRUE,
                          !.atCall = [s \in {activeHandlers[key] : key \in DOMAIN activeHandlers}
                                        |-> callbacks[s]]]]
    /\ closed' = TRUE
    /\ UNCHANGED <<inflight, objectIDCounter, sessionID, activeHandlers, callbacks,
                   worker, executed, notShutdown>>

\* m.activeHandlers.Range comes to the entry stored under key: wg.Add(1)
\* and a goroutine is started for its session.  The map is not locked for
\* the whole Range: requests store and delete sessions between two entries.
ShutdownRange(c, key) ==
    /\ down[c].pc = "Range"
    /\ key \in DOMAIN activeHandlers \ down[c].seen
    /\ worker' = [worker EXCEPT ![activeHandlers[key]] =
                     [st |-> "started", of |-> c, cbs |-> <<>>, i |-> 0]]
    /\ down' = [down EXCEPT ![c].seen = @ \cup {key}]
    /\ UNCHANGED <<inflight, objectIDCounter, sessionID, activeHandlers, callbacks,
                   closed, executed, notShutdown>>

\* m.activeHandlers.Range returns: it has come to every session that was
\* stored before it began and still is; a session stored while it ran may
\* have been passed over
ShutdownRangeEnd(c) ==
    /\ down[c].pc = "Range"
    /\ \A key \in DOMAIN activeHandlers :
          activeHandlers[key] \in DOMAIN down[c].atCall => key \in down[c].seen
    /\ down' = [down EXCEPT ![c].pc = "wait"]
    /\ UNCHANGED <<inflight, objectIDCounter, sessionID, activeHandlers, callbacks,
                   closed, worker, executed, notShutdown>>

\* the context of call c expires or is cancelled (a context that was done
\* when Shutdown was called is one that is done before Range)
CtxDone(c) ==
    /\ down[c].pc \in {"Range", "wait"}
    /\ down[c].ctx = "live"
    /\ down' = [down EXCEPT ![c].ctx = "done"]
    /\ UNCHANGED <<inflight, objectIDCounter, sessionID, activeHandlers, callbacks,
                   closed, worker, executed, notShutdown>>

\* the goroutine of session s reads the session's callbacks under its lock
WorkerRead(s) ==
    /\ worker[s].st = "started"
    /\ worker' = [worker EXCEPT ![s] =
           [@ EXCEPT !.st = "loop", !.cbs = callbacks[s], !.i = Len(callbacks[s])]]
    /\ UNCHANGED <<inflight, objectIDCounter, sessionID, activeHandlers, callbacks,
                   closed, down, executed, notShutdown>>

\* a loop that does not look at ctx before a callback
WorkerCheckAnyCtx(s) ==
    /\ worker[s].st = "loop"
    /\ worker[s].i > 0
    /\ worker' = [worker EXCEPT ![s].st = "checked"]
    /\ UNCHANGED <<inflight, objectIDCounter, sessionID, activeHandlers, callbacks,
                   closed, down, executed, notShutdown>>

\* the goroutine of session s, at the head of its loop with a callback
\* left: ctx.Err() is read and found nil
WorkerCheck(s) ==
    /\ worker[s].st = "loop"
    /\ worker[s].i > 0
    /\ down[worker[s].of].ctx = "live"
    /\ worker' = [worker EXCEPT ![s].st = "checked"]
    /\ UNCHANGED <<inflight, objectIDCounter, sessionID, activeHandlers, callbacks,
                   closed, down, executed, notShutdown>>

\* the goroutine of session s, after the check: callbacks[i]() is called
WorkerInvoke(s) ==
    /\ worker[s].st = "checked"
    /\ worker' = [worker EXCEPT ![s].st = "callback"]
    /\ UNCHANGED <<inflight, objectIDCounter, sessionID, activeHandlers, callbacks,
                   closed, down, executed, notShutdown>>

\* the callback the goroutine of session s is in returns
CallbackReturn(s) ==
    /\ worker[s].st = "callback"
    /\ executed' = [executed EXCEPT ![s] = Append(@, worker[s].cbs[worker[s].i])]
    /\ worker' = [worker EXCEPT ![s].st = "loop", ![s].i = @ - 1]
    /\ UNCHANGED <<inflight, objectIDCounter, sessionID, activeHandlers, callbacks,
                   closed, down, notShutdown>>

\* the goroutine of session s ends (wg.Done): no callback is left, or
\* ctx.Err() != nil at the head of the loop
WorkerExit(s) ==
    /\ worker[s].st = "loop"
    /\ worker[s].i = 0 \/ down[worker[s].of].ctx = "done"
    /\ worker' = [worker EXCEPT ![s].st = "finished"]
    /\ UNCHANGED <<inflight, objectIDCounter, sessionID, activeHandlers, callbacks,
                   closed, down, executed, notShutdown>>

\* wg.Wait() has returned and done is closed: every goroutine started has
\* ended
DoneClosed == \A s \in Sessions : worker[s].st \in {"none", "finished"}

\* the select of Shutdown takes "case <-done": return nil
ReturnDone(c) ==
    /\ down[c].pc = "wait"
    /\ DoneClosed
    /\ down' = [down EXCEPT ![c].pc = "returned", ![c].ret = "nil"]
    /\ UNCHANGED <<inflight, objectIDCounter, sessionID, activeHandlers, callbacks,
                   closed, worker, executed, notShutdown>>

\* the select of Shutdown takes "case <-ctx.Done()": return ctx.Err()
ReturnCtxErr(c) ==
    /\ down[c].pc = "wait"
    /\ down[c].ctx = "done"
    /\ down' = [down EXCEPT ![c].pc = "returned", ![c].ret = "ctx.Err()"]
    /\ UNCHANGED <<inflight, objectIDCounter, sessionID, activeHandlers, callbacks,
                   closed, worker, executed, notShutdown>>

NextShutdown ==
    \/ \E s \in Sessions : SessionBegin(s)
    \/ \E s \in Sessions : RegisterOnShutdown(s)
    \/ \E s \in Sessions : SessionEnd(s)
    \/ \E s \in Sessions : SessionPanic(s)
    \/ \E c \in Callers : ShutdownEnter(c)
    \/ \E c \in Callers : \E key \in DOMAIN activeHandlers : ShutdownRange(c, key)
    \/ \E c \in Callers : ShutdownRangeEnd(c)
    \/ \E c \in Callers : CtxDone(c)
    \/ \E s \in Sessions : WorkerRead(s)
    \/ \E s \in Sessions : WorkerCheck(s)
    \/ \E s \in Sessions : WorkerInvoke(s)
    \/ \E s \in Sessions : CallbackReturn(s)
    \/ \E s \in Sessions : WorkerExit(s)
    \/ \E c \in Callers : ReturnDone(c)
    \/ \E c \in Callers : ReturnCtxErr(c)

SpecShutdown == InitShutdown /\ [][NextShutdown]_vars

\* the elements of a sequence
Range(seq) == {seq[k] : k \in DOMAIN seq}

\* C15: the call of Shutdown that closes the manager invokes every callback
\* registered by every session active when it is called and blocks until
\* all of them have finished or ctx is done: when it has returned nil, every
\* such callback (of a session whose request is still being handled) has
\* run to its end; when it has returned ctx.Err(), ctx is done.
C15_ShutdownWaitsForCallbacks ==
    \A c \in Callers :
        (down[c].ran /\ down[c].pc = "returned") =>
            /\ down[c].ret = "nil" =>
                  \A s \in DOMAIN down[c].atCall :
                      inflight[s] = "handling" =>
                          Range(down[c].atCall[s]) \subseteq Range(executed[s])
            /\ down[c].ret = "ctx.Err()" => down[c].ctx = "done"


----------------------------------------------------------------------------
(* Options: the config a constructor builds, option by option.  Slices     *)
(* and binder instances live in a heap, so that what an option shares with *)
(* its caller, with the global Binders and with other slices is visible.   *)

\* sizes are counted in MiB: DefaultMultipartMemory is 8 << 20 bytes,
\* the constructors' maxBodySize 2 << 20 bytes
DefaultMultipartMemory == 8
DefaultMaxBodySize == 2

\* a binder instance: the binder and, for a *FormBinder, its MaxMemory
Instance(b, maxMemory) == [b |-> b, MaxMemory |-> maxMemory]

\* &FormBinder{MaxMemory: limit}
NewFormBinder(limit) == Instance(FormBinder, limit)

\* b.(*FormBinder)
IsFormBinder(o) == o.b.name = "form"

\* The heap before a constructor is called.  h.obj: the instances by
\* address, h.arr: the arrays behind the slices by address (an array's
\* length is the capacity of a slice that starts at its head).
\*   instances 1..4 and array 1: var Binders
\*   instances 5..7: binders of the caller, a HeaderBinder (Meta), a
\*     FormBinder of 32 MiB and a Body binder of its own
\*   array 2: a slice of the caller's that holds the HeaderBinder and has
\*     room for more
Heap0 ==
    [obj |-> << Instance(PathBinder, 0), Instance(QueryBinder, 0),
                Instance(JsonBinder(TRUE), 0), NewFormBinder(DefaultMultipartMemory),
                Instance(CustomBinder(BinderMeta, TRUE, FALSE), 0),
                NewFormBinder(32),
                Instance(CustomBinder(BinderBody, TRUE, FALSE), 0) >>,
     arr |-> << <<1, 2, 3, 4>>, <<5, 0, 0, 0, 0, 0>> >>]

\* a slice: the array it points into and its length; the nil slice
Slice(a, n) == [a |-> a, len |-> n]
NilSlice == Slice(0, 0)

\* var Binders, the slice
BindersSlice == Slice(1, 4)

\* the caller's slice with spare capacity: xs[:1] of array 2
SpareSlice == Slice(2, 1)

\* the addresses a slice holds, cap(s)
Elems(h, sl) == [i \in 1..sl.len |-> h.arr[sl.a][i]]
Cap(h, sl) == IF sl.a = 0 THEN 0 ELSE Len(h.arr[sl.a])

\* the binders of a slice, as Bind iterates them
ChainOf(h, sl) == [i \in 1..sl.len |-> h.obj[h.arr[sl.a][i]].b]

\* a new array holding xs: the heap and the slice over it
MakeSlice(h, xs) ==
    [h |-> [h EXCEPT !.arr = Append(@, xs)], s |-> Slice(Len(h.arr) + 1, Len(xs))]

\* append(sl, xs...): in place when the capacity allows, else into a new
\* array
AppendSlice(h, sl, xs) ==
    IF sl.len + Len(xs) <= Cap(h, sl)
    THEN [h |-> [h EXCEPT !.arr[sl.a] =
                    [i \in DOMAIN @ |->
                        IF i > sl.len /\ i <= sl.len + Len(xs) THEN xs[i - sl.len] ELSE @[i]]],
          s |-> Slice(sl.a, sl.len + Len(xs))]
    ELSE MakeSlice(h, Elems(h, sl) \o xs)

\* the config of NewHandler, NewStreamHandler, NewResponder before the
\* options
DefaultConfig == [binders |-> BindersSlice, maxBodySize |-> DefaultMaxBodySize]

\* WithBinders(b...)(c)
WithBinders(b, c, h) == [c |-> [c EXCEPT !.binders = b], h |-> h]

\* AddBinders with the arguments of append exchanged
AddBindersBehind(b, c, h) ==
    LET app == AppendSlice(h, c.binders, Elems(h, b))
    IN  [c |-> [c EXCEPT !.binders = app.s], h |-> app.h]

\* AddBinders(b...)(c): c.binders = append(b, c.binders...)
AddBinders(b, c, h) ==
    LET app == AppendSlice(h, b, Elems(h, c.binders))
    IN  [c |-> [c EXCEPT !.binders = app.s], h |-> app.h]

\* the index of the first *FormBinder of the addresses xs, 0 when there is none
FirstFormBinder(h, xs) ==
    LET is == {i \in DOMAIN xs : IsFormBinder(h.obj[xs[i]])}
    IN  IF is = {} THEN 0 ELSE CHOOSE i \in is : \A j \in is : i <= j

\* WithMultipartLimit that sets MaxMemory of the FormBinder it finds
WithMultipartLimitInPlace(limit, c, h) ==
    LET xs == Elems(h, c.binders)
        at == FirstFormBinder(h, xs)
        size == IF limit > c.maxBodySize THEN limit ELSE c.maxBodySize
    IN  IF at # 0
        THEN [c |-> [c EXCEPT !.maxBodySize = size],
              h |-> [h EXCEPT !.obj[xs[at]].MaxMemory = limit]]
        ELSE LET h1 == [h EXCEPT !.obj = Append(@, NewFormBinder(limit))]
                 app == AppendSlice(h1, c.binders, <<Len(h1.obj)>>)
             IN  [c |-> [c EXCEPT !.binders = app.s, !.maxBodySize = size], h |-> app.h]

\* WithMultipartLimit(limit)(c): a copy of the slice, in which the first
\* *FormBinder is replaced by a new one, or to which a new one is appended
WithMultipartLimit(limit, c, h) ==
    LET xs == Elems(h, c.binders)
        at == FirstFormBinder(h, xs)
        size == IF limit > c.maxBodySize THEN limit ELSE c.maxBodySize
        h1 == [h EXCEPT !.obj = Append(@, NewFormBinder(limit))]
        new == Len(h1.obj)
        copy == MakeSlice(h1, xs)
    IN  IF at # 0
        THEN [c |-> [c EXCEPT !.binders = copy.s, !.maxBodySize = size],
              h |-> [copy.h EXCEPT !.arr[copy.s.a][at] = new]]
        ELSE LET app == AppendSlice(copy.h, copy.s, <<new>>)
             IN  [c |-> [c EXCEPT !.binders = app.s, !.maxBodySize = size], h |-> app.h]

\* WithMaxBodySize(maxBytes)(c)
WithMaxBodySize(maxBytes, c, h) == [c |-> [c EXCEPT !.maxBodySize = maxBytes], h |-> h]

\* the options a constructor is given at most, and the binders one
\* WithBinders or AddBinders is given at most
MaxOptions == 2
MaxGiven == 2

\* the caller's binder instances, the argument lists of WithBinders and
\* AddBinders, the limits of WithMultipartLimit (below and above the default
\* maxBodySize), the sizes of WithMaxBodySize
CallerInstances == {5, 6, 7}
GivenLists == SeqsUpTo(CallerInstances, MaxGiven)
Limits == {1, 4}
BodySizes == {0, 1}

\* the constructor has made its default config; no option is applied yet
InitOptions ==
    /\ call = [op |-> "NewHandler", arg |-> <<>>, c |-> DefaultConfig, h |-> Heap0]
    /\ ret = [c |-> DefaultConfig, h |-> Heap0, n |-> 0]
    /\ PipelineIdle
    /\ CacheIdle
    /\ ShutdownIdle

\* opt(cfg) for the next option: call notes the option with the config and
\* the heap it is applied to, ret what it leaves
Applied(op, arg, c, h, res) ==
    /\ call' = [op |-> op, arg |-> arg, c |-> c, h |-> h]
    /\ ret' = [c |-> res.c, h |-> res.h, n |-> ret.n + 1]
    /\ UNCHANGED notCall

\* the slices an option may be given: the variadic arguments in a new
\* array, or the caller's slice xs[:1]... as it is
GivenSlices(h) ==
    {MakeSlice(h, xs) : xs \in GivenLists} \cup {[h |-> h, s |-> SpareSlice]}

ApplyWithBinders ==
    /\ ret.n < MaxOptions
    /\ \E g \in GivenSlices(ret.h) :
          Applied("WithBinders", g.s, ret.c, g.h, WithBinders(g.s, ret.c, g.h))

ApplyAddBinders ==
    /\ ret.n < MaxOptions
    /\ \E g \in GivenSlices(ret.h) :
          Applied("AddBinders", g.s, ret.c, g.h, AddBinders(g.s, ret.c, g.h))

ApplyWithMultipartLimit ==
    /\ ret.n < MaxOptions
    /\ \E limit \in Limits :
          Applied("WithMultipartLimit", limit, ret.c, ret.h,
                  WithMultipartLimit(limit, ret.c, ret.h))

ApplyWithMaxBodySize ==
    /\ ret.n < MaxOptions
    /\ \E maxBytes \in BodySizes :
          Applied("WithMaxBodySize", maxBytes, ret.c, ret.h,
                  WithMaxBodySize(maxBytes, ret.c, ret.h))

NextOptions ==
    \/ ApplyWithBinders
    \/ ApplyAddBinders
    \/ ApplyWithMultipartLimit
    \/ ApplyWithMaxBodySize

SpecOptions == InitOptions /\ [][NextOptions]_vars

\* what was in the heap before the last option is as it was
HeapKept ==
    /\ \A a \in DOMAIN call.h.arr : ret.h.arr[a] = call.h.arr[a]
    /\ \A o \in DOMAIN call.h.obj : ret.h.obj[o] = call.h.obj[o]

\* C16: WithMultipartLimit(limit) replaces the first FormBinder of the chain
\* by a new FormBinder with MaxMemory == limit, or appends one when the
\* chain has none, and changes nothing else: the length (when there was a
\* FormBinder), the identity and position of every other binder, the slice
\* referenced before, the global Binders and the original FormBinder
\* instance are as they were.
C16_MultipartLimitReplacesFormBinder ==
    call.op = "WithMultipartLimit" =>
        LET before == Elems(call.h, call.c.binders)
            after == Elems(ret.h, ret.c.binders)
            at == FirstFormBinder(call.h, before)
            fresh == IF at # 0 THEN after[at] ELSE after[Len(after)]
        IN  /\ IF at # 0
               THEN /\ Len(after) = Len(before)
                    /\ \A i \in DOMAIN before : i # at => after[i] = before[i]
               ELSE /\ Len(after) = Len(before) + 1
                    /\ \A i \in DOMAIN before : after[i] = before[i]
            /\ fresh \notin DOMAIN call.h.obj
            /\ ret.h.obj[fresh] = NewFormBinder(call.arg)
            /\ ret.c.binders.a \notin DOMAIN call.h.arr
            /\ HeapKept
            /\ Elems(ret.h, call.c.binders) = before
            /\ ChainOf(ret.h, BindersSlice) = Binders
            /\ ret.h.obj[4] = NewFormBinder(DefaultMultipartMemory)

\* C16 witness: WithMultipartLimit(1) applied to the default config: the
\* chain is Path, Query, JSON and a new FormBinder of limit 1 while the
\* global Binders still ends with its own FormBinder.
C16_Witness ==
    /\ call.op = "WithMultipartLimit" /\ call.arg = 1
    /\ call.c.binders = BindersSlice
    /\ Elems(ret.h, ret.c.binders) = <<1, 2, 3, 8>>
    /\ ret.h.obj[8] = NewFormBinder(1)
    /\ Elems(ret.h, BindersSlice) = <<1, 2, 3, 4>>

\* WithMultipartLimit applied to a chain without FormBinder: one is appended
MultipartLimitAppended ==
    /\ call.op = "WithMultipartLimit"
    /\ FirstFormBinder(call.h, Elems(call.h, call.c.binders)) = 0
    /\ ret.c.binders.len = call.c.binders.len + 1


----------------------------------------------------------------------------
(* Handlers built with AddBinders, and the requests they handle.           *)

\* requests for UserReq with and without a path value, a query and a JSON
\* body, whose member is a field of UserReq or unknown
AddRequests ==
    {[Method |-> IF b.body = <<>> THEN "GET" ELSE "POST",
      path |-> [id |-> p], RawQuery |-> q, ct |-> b.ct, body |-> b.body,
      bodyLen |-> Len(b.body), Body |-> IF b.body = <<>> THEN "NoBody" ELSE "reader",
      limit |-> 0, tail |-> ""] :
        p \in PathValues \cup {""},
        q \in {<<>>, << <<"name", "a">> >>},
        b \in {[ct |-> CtNone, body |-> <<>>],
               [ct |-> CtJson, body |-> << <<"name", "b">> >>],
               [ct |-> CtJson, body |-> << <<"x", "b">> >>]}}

\* the chain configured before AddBinders: the constructor's default, or
\* the one a WithBinders before it has set
ConfiguredBefore(h) ==
    {[c |-> DefaultConfig, h |-> h]} \cup
    {WithBinders(g.s, DefaultConfig, g.h) : g \in {MakeSlice(h, <<5>>)}}

\* NewHandler(fn, [WithBinders(...)], AddBinders(b...)) and a request to it:
\* call and ret note the application of AddBinders, cfg.binders is the
\* chain it left
InitAdd ==
    /\ \E prev \in ConfiguredBefore(Heap0) :
          \E g \in GivenSlices(prev.h) :
              LET res == AddBinders(g.s, prev.c, g.h)
              IN  /\ call = [op |-> "AddBinders", arg |-> g.s, c |-> prev.c, h |-> g.h]
                  /\ ret = [c |-> res.c, h |-> res.h, n |-> 1]
                  /\ cfg \in Configs({ChainOf(res.h, res.c.binders)})
    /\ typ = UserReq
    /\ r \in AddRequests
    /\ InitRun
    /\ CacheIdle
    /\ ShutdownIdle

SpecAdd == InitAdd /\ [][Next]_vars

\* C17: AddBinders(b...) yields the chain of the given binders, in the
\* given order, followed by the chain configured before, in its order; on a
\* request every call of Match or Bind on a given binder comes before every
\* call on a binder of the former chain, which is asked only after all given
\* binders were; and the global Binders and every binder instance are as
\* they were.
C17_AddBindersPrepends ==
    call.op = "AddBinders" =>
        LET given == call.arg.len
        IN  /\ Elems(ret.h, ret.c.binders) =
                   Elems(call.h, call.arg) \o Elems(call.h, call.c.binders)
            /\ cfg.binders = ChainOf(call.h, call.arg) \o ChainOf(call.h, call.c.binders)
            /\ \A k, l \in CallsOf("Match") \cup CallsOf("Bind") :
                   (calls[k][2] <= given /\ calls[l][2] > given) => k < l
            /\ (\E j \in Matched : j > given) => \A j \in 1..given : j \in Matched
            /\ ret.h.arr[1] = Heap0.arr[1]
            /\ ChainOf(ret.h, BindersSlice) = Binders
            /\ \A o \in DOMAIN call.h.obj : ret.h.obj[o] = call.h.obj[o]

\* C17 witness: NewHandler(fn, AddBinders(header, body)) has bound a JSON
\* request: the chain is the two given binders and then the default chain;
\* both given binders ran, then Path and Query, and the JSON binder was
\* skipped because the given Body binder had run.
C17_Witness ==
    /\ call.op = "AddBinders"
    /\ call.c.binders = BindersSlice
    /\ Elems(call.h, call.arg) = <<5, 7>>
    /\ Elems(ret.h, ret.c.binders) = <<5, 7, 1, 2, 3, 4>>
    /\ r.ct = CtJson /\ URLQuery(r) # <<>>
    /\ pc = "Validate"
    /\ Bound = {1, 2, 3, 4}
    /\ calls[1] = <<"Match", 1>> /\ calls[2] = <<"Bind", 1>>


----------------------------------------------------------------------------
(* Validate: the record's own Validate method, else the tag validator.     *)

\* the validator instances: var Validator and instances given with
\* WithValidator
ValidatorInstances == {"Validator", "custom", "other"}

\* What Validate can see of a record v:
\*   v.self     it implements SelfValidatable
\*   v.Validate what its Validate method returns (nil or an error)
\*   v.Struct   what each instance's Struct(v) returns for its tags
ValidationMessages == {Nil, <<"interface error">>, <<"interface precedence">>}
StructMessages == {Nil, <<"Field validation for 'Val' failed on the 'required' tag">>}
Validatables ==
    [self : BOOLEAN, Validate : ValidationMessages,
     Struct : [ValidatorInstances -> StructMessages]]

\* the variadic validators of a call: none, or the instance of the config
\* first
ValidatorLists == {<<>>, <<"custom">>, <<"other">>, <<"custom", "other">>}

\* the HttpError Validate makes of a validator's error
ValidationFailed(err) == HttpError(StatusBadRequest, "VALIDATION_FAILED", err)

\* Validate that runs the tag validator after the record's own method
ValidateBoth(v, validators) ==
    LET instance == IF Len(validators) = 0 THEN "Validator" ELSE validators[1]
    IN  IF v.self /\ v.Validate # Nil
        THEN [err |-> ValidationFailed(v.Validate), consulted |-> <<"Validate">>]
        ELSE [err |-> IF v.Struct[instance] # Nil
                      THEN ValidationFailed(v.Struct[instance]) ELSE Nil,
              consulted |-> (IF v.self THEN <<"Validate">> ELSE <<>>) \o <<instance>>]

\* Validate(ctx, v, validators...): the error it returns and the validators
\* it consulted, in order
Validate(v, validators) ==
    IF v.self
    THEN [err |-> IF v.Validate # Nil THEN ValidationFailed(v.Validate) ELSE Nil,
          consulted |-> <<"Validate">>]
    ELSE LET instance == IF Len(validators) = 0 THEN "Validator" ELSE validators[1]
         IN  [err |-> IF v.Struct[instance] # Nil
                      THEN ValidationFailed(v.Struct[instance]) ELSE Nil,
              consulted |-> <<instance>>]

InitValidate ==
    /\ call \in [op : {"Validate"}, v : Validatables, validators : ValidatorLists]
    /\ ret = Pending
    /\ PipelineIdle
    /\ CacheIdle
    /\ ShutdownIdle

CallValidate ==
    /\ call.op = "Validate"
    /\ ret = Pending
    /\ ret' = Validate(call.v, call.validators)
    /\ UNCHANGED <<call, notCall>>

NextValidate == CallValidate

SpecValidate == InitValidate /\ [][NextValidate]_vars

\* C18: Validate uses exactly one validation path per record: for a record
\* that implements SelfValidatable only its Validate method is consulted,
\* whatever the tags would say; otherwise only the tag validator is (the
\* given instance, else the default one); an error of the path used is
\* returned as HttpError 400 VALIDATION_FAILED with the validator's message,
\* and nil is returned when that path has no error.
C18_OneValidationPath ==
    ret # Pending =>
        LET v == call.v
            instance == IF call.validators = <<>> THEN "Validator" ELSE call.validators[1]
            verdict == IF v.self THEN v.Validate ELSE v.Struct[instance]
        IN  /\ Len(ret.consulted) = 1
            /\ ret.consulted[1] = IF v.self THEN "Validate" ELSE instance
            /\ verdict = Nil => ret.err = Nil
            /\ verdict # Nil =>
                  ret.err = [HttpCode |-> StatusBadRequest, BizCode |-> "VALIDATION_FAILED",
                             Msg |-> verdict]

\* C18 witness: a record with its own Validate method, which accepts it,
\* and with tags every instance would reject: Validate returned nil having
\* consulted the method only.
C18_Witness ==
    /\ ret # Pending
    /\ call.v.self /\ call.v.Validate = Nil
    /\ \A i \in ValidatorInstances : call.v.Struct[i] # Nil
    /\ ret.err = Nil
    /\ ret.consulted = <<"Validate">>


----------------------------------------------------------------------------
(* AuthChain: the strategies of a chain, tried in order.                   *)

MaxStrategies == 3

\* An error is the chain of its messages, outermost first; a wrapping error
\* (%w) puts its own message before the chain it wraps.
ErrNoCredentials == <<"no credentials found">>
WrappedNoCredentials == <<"cookie", "no credentials found">>
InvalidToken == <<"invalid_token">>

\* errors.Is(err, target): err or an error it wraps is target
ErrorsIs(err, target) ==
    \E i \in 1..Len(err) : SubSeq(err, i, Len(err)) = target

\* what a strategy returns for the request: (identity, err)
StrategyResults ==
    {[identity |-> <<"user-1">>, err |-> Nil],
     [identity |-> <<"user-2">>, err |-> Nil],
     [identity |-> Nil, err |-> ErrNoCredentials],
     [identity |-> Nil, err |-> WrappedNoCredentials],
     [identity |-> Nil, err |-> InvalidToken]}

StrategyLists ==
    UNION {[1..n -> StrategyResults] : n \in 0..MaxStrategies}

\* a chain that goes on to the next strategy after any error
ContinuesAlways(err) == err # Nil

\* the loop goes on to the next strategy: err is not nil and
\* errors.Is(err, ErrNoCredentials)
Continues(err) == err # Nil /\ ErrorsIs(err, ErrNoCredentials)

\* call.i is the strategy the range loop is at, call.invoked the strategies
\* called so far, in the order of the calls
InitAuthChain ==
    /\ call \in [op : {"AuthChain"}, strategies : StrategyLists,
                 i : {1}, invoked : {<<>>}]
    /\ ret = Pending
    /\ PipelineIdle
    /\ CacheIdle
    /\ ShutdownIdle

\* one iteration: identity, err := strategy(w, r)
ChainInvoke ==
    /\ call.op = "AuthChain"
    /\ ret = Pending
    /\ call.i <= Len(call.strategies)
    /\ LET res == call.strategies[call.i]
       IN  /\ call' = [call EXCEPT !.invoked = Append(@, call.i),
                                   !.i = IF Continues(res.err) THEN @ + 1 ELSE @]
           /\ ret' = IF res.err = Nil THEN [identity |-> res.identity, err |-> Nil]
                     ELSE IF Continues(res.err) THEN Pending
                     ELSE [identity |-> Nil, err |-> res.err]
    /\ UNCHANGED notCall

\* after the loop: return nil, ErrNoCredentials
ChainExhausted ==
    /\ call.op = "AuthChain"
    /\ ret = Pending
    /\ call.i > Len(call.strategies)
    /\ ret' = [identity |-> Nil, err |-> ErrNoCredentials]
    /\ UNCHANGED <<call, notCall>>

NextAuthChain == ChainInvoke \/ ChainExhausted

SpecAuthChain == InitAuthChain /\ [][NextAuthChain]_vars

\* the strategies of xs whose result is not ErrNoCredentials
Deciding(xs) ==
    {j \in 1..Len(xs) :
        xs[j].err = Nil \/ ~ErrorsIs(xs[j].err, ErrNoCredentials)}

\* the smallest member of a non-empty set of numbers
Min(S) == CHOOSE x \in S : \A y \in S : x <= y

\* C19: AuthChain tries its strategies in order and the first strategy that
\* does not return ErrNoCredentials decides: its identity is returned on
\* success, its error is returned at once otherwise, and no later strategy
\* is invoked; only when every strategy returns ErrNoCredentials does the
\* chain return ErrNoCredentials.
C19_FirstDecidingStrategy ==
    call.op = "AuthChain" =>
        LET xs == call.strategies
            deciding == Deciding(xs)
        IN  /\ call.invoked = [j \in 1..Len(call.invoked) |-> j]
            /\ deciding # {} => Len(call.invoked) <= Min(deciding)
            /\ ret # Pending =>
                 IF deciding = {}
                 THEN /\ call.invoked = [j \in 1..Len(xs) |-> j]
                      /\ ret = [identity |-> Nil, err |-> ErrNoCredentials]
                 ELSE LET d == Min(deciding)
                      IN  /\ Len(call.invoked) = d
                          /\ xs[d].err = Nil =>
                                ret = [identity |-> xs[d].identity, err |-> Nil]
                          /\ xs[d].err # Nil =>
                                ret = [identity |-> Nil, err |-> xs[d].err]

\* C19 witness: the first strategy found no credentials, the second failed
\* with another error and a third would have succeeded: the chain returned
\* the second's error and never invoked the third.
C19_Witness ==
    /\ call.op = "AuthChain"
    /\ ret # Pending
    /\ Len(call.strategies) = 3
    /\ call.strategies[1].err = ErrNoCredentials
    /\ call.strategies[2].err = InvalidToken
    /\ call.strategies[3].err = Nil
    /\ call.invoked = <<1, 2>>
    /\ ret = [identity |-> Nil, err |-> InvalidToken]


----------------------------------------------------------------------------
(* Error: the error response, one write to the ResponseWriter per step.    *)

\* A ResponseWriter: header is the map w.Header() returns ("" for a key
\* that is absent, as Header.Get reads it), sent the copy of it that went
\* out with the status line (Nil before WriteHeader), body what was
\* written after it.
JsonContentType == "application/json; charset=utf-8"
NoHeaders == [X_Trace_ID |-> "", Content_Type |-> ""]
NewWriter(header) ==
    [header |-> header, wroteHeader |-> FALSE, status |-> 0, sent |-> Nil,
     body |-> Nil]

\* w.WriteHeader(code): the first call commits the status and the headers
\* set so far; what is set in w.Header() afterwards is not sent
WriteHeader(rw, code) ==
    IF rw.wroteHeader THEN rw
    ELSE [rw EXCEPT !.wroteHeader = TRUE, !.status = code, !.sent = rw.header]

\* w.Write(b): commits status 200 first if WriteHeader was not called
Write(rw, b) == [WriteHeader(rw, StatusOK) EXCEPT !.body = b]

ErrBadRequest == HttpError(StatusBadRequest, "BAD_REQUEST", <<"Bad Request">>)

\* inferBizCode: the business code of a status that came without one
inferBizCode(httpCode) ==
    CASE httpCode = StatusBadRequest -> "BAD_REQUEST"
      [] httpCode = StatusUnauthorized -> "UNAUTHORIZED"
      [] httpCode = StatusForbidden -> "FORBIDDEN"
      [] httpCode = StatusNotFound -> "NOT_FOUND"
      [] httpCode = StatusTooManyRequests -> "TOO_MANY_REQUESTS"
      [] httpCode = StatusConflict -> "CONFLICT"
      [] httpCode = StatusInternalServerError -> "INTERNAL_ERROR"
      [] httpCode = StatusRequestEntityTooLarge -> "REQUEST_ENTITY_TOO_LARGE"
      [] OTHER -> IF httpCode >= 400 /\ httpCode < 500 THEN "ERROR"
                  ELSE "INTERNAL_ERROR"

\* step 5, the business code: the error's BizStatus when it is not empty,
\* else the code inferred from the status of an ErrorCoder, else
\* CodeInternalError
ErrorBizCode(err) ==
    IF err.BizCode # "" THEN err.BizCode
    ELSE IF err.HttpCode # 0 THEN inferBizCode(err.HttpCode)
    ELSE "INTERNAL_ERROR"

\* NewError(500, "MAINTENANCE", ...): a *HttpError with a 5xx status
MaintenanceError ==
    HttpError(StatusInternalServerError, "MAINTENANCE", <<"maintenance until 10:00">>)

\* errors of other types than *HttpError: err.Msg is their Error() text,
\* a HttpCode other than 0 makes the type an ErrorCoder, a BizCode other
\* than "" a BizCoder
RawError == HttpError(0, "", <<"sql: syntax error near 'SELECT'">>)
UnavailableError == HttpError(503, "", <<"upstream 10.0.0.7 refused">>)
QuotaError == HttpError(StatusBadRequest, "QUOTA", <<"quota row 17 exceeded">>)

\* the errors given to Error.  isHttpError: the value is a *HttpError;
\* public: Nil when the type is no PublicError, else <<what PublicMessage
\* returns>>; marshaler: the type has its own MarshalJSON; jsonText: the
\* JSON form of the value (its exported fields, or what its MarshalJSON
\* writes) holds its Error() text, as that of a *HttpError does in Msg and
\* that of an errors.New value ({}) does not.
ErrorArgs ==
    [err : {ErrBadRequest, MaintenanceError, ConflictError}, isHttpError : {TRUE},
     public : {Nil}, marshaler : {FALSE}, jsonText : {TRUE}]
    \cup
    [err : {BusinessError, RawError, UnavailableError, QuotaError},
     isHttpError : {FALSE},
     public : {Nil, <<"">>, <<"safe message">>}, marshaler : BOOLEAN,
     jsonText : BOOLEAN]

\* step 6: the message of the envelope.  With SafeMode a *HttpError keeps
\* its message, a PublicError with a non-empty PublicMessage gets that,
\* and any other error with a status of 500 or above gets the fixed text.
SafeMessage(arg, httpCode, safeMode) ==
    IF ~safeMode \/ arg.isHttpError THEN arg.err.Msg
    ELSE IF arg.public # Nil /\ arg.public # <<"">> THEN arg.public
    ELSE IF httpCode >= 500 THEN <<"Internal Server Error">>
    ELSE arg.err.Msg

\* GetTraceID: nil, or a provider and the id it returns for the request
TraceProviders == {Nil, <<"">>, <<"error-trace-id">>}

\* the headers set on w before Error is called
PresetHeaders ==
    {NoHeaders, [NoHeaders EXCEPT !.X_Trace_ID = "upstream-id"]}

StatusTeapot == 418

InitError ==
    /\ call \in [op : {"Error"}, arg : ErrorArgs, GetTraceID : TraceProviders,
                 header : PresetHeaders, handler : BOOLEAN,
                 noEnvelope : BOOLEAN, status : {0, StatusTeapot},
                 SafeMode : BOOLEAN]
    /\ ret = [pc |-> "start", rw |-> NewWriter(call.header), delegated |-> FALSE,
              bizCode |-> "", msg |-> Nil, traceID |-> ""]
    /\ PipelineIdle
    /\ CacheIdle
    /\ ShutdownIdle

\* step 4: cfg.handler is set: it gets the error and Error returns
ErrorDelegate ==
    /\ call.op = "Error"
    /\ ret.pc = "start"
    /\ call.handler
    /\ ret' = [ret EXCEPT !.pc = "done", !.delegated = TRUE]
    /\ UNCHANGED <<call, notCall>>

\* steps 5 to 7: status, business code and message, then
\* w.WriteHeader(httpCode)
ErrorWriteHeader ==
    /\ call.op = "Error"
    /\ ret.pc = "start"
    /\ ~call.handler
    /\ LET err == call.arg.err
           httpCode == IF call.status # 0 THEN call.status ELSE ErrorStatus(err)
           bizCode == ErrorBizCode(err)
           msg == SafeMessage(call.arg, httpCode, call.SafeMode)
       IN  ret' = [ret EXCEPT !.pc = "trace", !.bizCode = bizCode, !.msg = msg,
                              !.rw = WriteHeader(@, httpCode)]
    /\ UNCHANGED <<call, notCall>>

\* the trace id: read from the provider, put in w.Header() when the
\* header is not set yet
ErrorInjectTrace ==
    /\ call.op = "Error"
    /\ ret.pc = "trace"
    /\ LET traceID == IF call.GetTraceID = Nil THEN "" ELSE call.GetTraceID[1]
       IN  ret' = [ret EXCEPT
                     !.pc = "build", !.traceID = traceID,
                     !.rw.header.X_Trace_ID =
                         IF traceID # "" /\ @ = "" THEN traceID ELSE @]
    /\ UNCHANGED <<call, notCall>>

\* steps 8 and 9: the Content-Type in w.Header(), then the body: the
\* envelope, or with WithNoEnvelope or a json.Marshaler the JSON form of
\* the error itself, whose message is the error's own text when the form
\* holds it (Nil: the body has no message)
ErrorEncode ==
    /\ call.op = "Error"
    /\ ret.pc = "build"
    /\ LET envelope == ~call.noEnvelope /\ ~call.arg.marshaler
           resp == IF envelope
                   THEN [envelope |-> TRUE, Code |-> ret.bizCode,
                         Message |-> ret.msg, TraceID |-> ret.traceID]
                   ELSE [envelope |-> FALSE,
                         Code |-> IF call.arg.isHttpError THEN call.arg.err.BizCode ELSE "",
                         Message |-> IF call.arg.jsonText THEN call.arg.err.Msg ELSE Nil,
                         TraceID |-> ""]
           typed == [ret.rw EXCEPT !.header.Content_Type =
                        IF envelope \/ @ = "" THEN JsonContentType ELSE @]
       IN  ret' = [ret EXCEPT !.pc = "done", !.rw = Write(typed, resp)]
    /\ UNCHANGED <<call, notCall>>

NextError == ErrorDelegate \/ ErrorWriteHeader \/ ErrorInjectTrace \/ ErrorEncode

SpecError == InitError /\ [][NextError]_vars

\* C20: for every error response Error has written while the trace
\* provider returns a non-empty id, the headers sent with the status line
\* hold X-Trace-ID and the JSON Content-Type, and the envelope in the body
\* carries the provider's trace id.
C20_TraceHeadersSent ==
    (/\ call.op = "Error"
     /\ ret.pc = "done"
     /\ ~ret.delegated
     /\ call.GetTraceID # Nil
     /\ call.GetTraceID # <<"">>)
    => /\ ret.rw.sent.X_Trace_ID # ""
       /\ ret.rw.sent.Content_Type = JsonContentType
       /\ ret.rw.body.envelope => ret.rw.body.TraceID = call.GetTraceID[1]


----------------------------------------------------------------------------
(* NewClientIPMiddleware: the client IP of a request.                      *)

\* A text is the sequence of its pieces: a decimal numeral, a word, the
\* text of an IPv6 address, or one of the separators ".", "[", "]", ":",
\* "/", "," and " ".  "" is the empty sequence; "10.0.0.1:80" is
\* <<"10", ".", "0", ".", "0", ".", "1", ":", "80">>.  The text behind the
\* "/" of a CIDR is cut into its characters: "10.0.0.0/08" ends with
\* <<"/", "0", "8">>.
V6Texts == {"::1"}

\* the decimal digits of n, one piece each
RECURSIVE Digits(_)
Digits(n) ==
    IF n < 10 THEN <<ToString(n)>> ELSE Digits(n \div 10) \o <<ToString(n % 10)>>

\* the text of the IPv4 address a.b.c.d, and of the network a.b.c.d/n
V4(a, b, c, d) ==
    <<ToString(a), ".", ToString(b), ".", ToString(c), ".", ToString(d)>>
Cidr(a, b, c, d, n) == V4(a, b, c, d) \o <<"/">> \o Digits(n)

\* a field of a dotted address: a numeral of 0..255 without leading
\* zeros, -1 for anything else
Octet(piece) ==
    IF \E n \in 0..255 : ToString(n) = piece
    THEN CHOOSE n \in 0..255 : ToString(n) = piece
    ELSE -1

\* dtoi of the text behind the "/", and the test of its result: the run of
\* digits the text starts with is read as a decimal number (leading zeros
\* are digits like the others, a number of 0xFFFFFF or more is no
\* number); the length of the prefix when every piece is a digit and the
\* number is at most max, else -1.  n is the number read so far.
RECURSIVE dtoi(_, _, _)
dtoi(mask, n, max) ==
    LET digit == IF \E d \in 0..9 : ToString(d) = Head(mask)
                 THEN CHOOSE d \in 0..9 : ToString(d) = Head(mask)
                 ELSE -1
    IN  IF mask = <<>> THEN (IF n <= max THEN n ELSE -1)
        ELSE IF digit = -1 \/ n * 10 + digit >= 16777215 THEN -1
        ELSE dtoi(Tail(mask), n * 10 + digit, max)

\* net.ParseIP of a text: the address (its four octets, or the text of an
\* IPv6 address), Nil when the text is no address
ParseIP(text) ==
    IF Len(text) = 1 /\ text[1] \in V6Texts THEN <<text[1]>>
    ELSE IF /\ Len(text) = 7
            /\ \A k \in {2, 4, 6} : text[k] = "."
            /\ \A k \in {1, 3, 5, 7} : Octet(text[k]) # -1
    THEN <<Octet(text[1]), Octet(text[3]), Octet(text[5]), Octet(text[7])>>
    ELSE Nil

\* octet k of an address under a mask of the given number of bits
MaskOctet(o, k, bits) ==
    LET rest == bits - 8 * (k - 1)
    IN  IF rest >= 8 THEN o
        ELSE IF rest <= 0 THEN 0
        ELSE (o \div (2 ^ (8 - rest))) * (2 ^ (8 - rest))

\* net.ParseCIDR: the network (the masked address and the number of bits
\* of the mask), Nil for the error: no "/", no address before the first
\* one, or behind it no digit or not the length of a prefix.  Of IPv6 the
\* model has one address, whose networks keep its text.
ParseCIDR(cidr) ==
    LET slash == CHOOSE k \in 0..Len(cidr) :
                    /\ k # 0 => cidr[k] = "/"
                    /\ \A j \in 1..Len(cidr) : cidr[j] = "/" => (k # 0 /\ k <= j)
        ip == ParseIP(SubSeq(cidr, 1, slash - 1))
        mask == SubSeq(cidr, slash + 1, Len(cidr))
        bits == IF mask = <<>> THEN -1
                ELSE dtoi(mask, 0, IF Len(ip) = 4 THEN 32 ELSE 128)
    IN  IF slash = 0 \/ ip = Nil \/ bits = -1 THEN Nil
        ELSE IF Len(ip) = 4
        THEN [IP |-> [k \in 1..4 |-> MaskOctet(ip[k], k, bits)], bits |-> bits]
        ELSE [IP |-> ip, bits |-> bits]

\* (*IPNet).Contains: same family and the same bits under the mask
NetContains(ipNet, ip) ==
    /\ Len(ip) = Len(ipNet.IP)
    /\ Len(ip) = 4 => \A k \in 1..4 : MaskOctet(ip[k], k, ipNet.bits) = ipNet.IP[k]

\* the loop of NewClientIPMiddleware: the networks of the CIDRs that parse
RECURSIVE TrustedProxies(_)
TrustedProxies(cidrs) ==
    IF cidrs = <<>> THEN <<>>
    ELSE (IF ParseCIDR(Head(cidrs)) # Nil THEN <<ParseCIDR(Head(cidrs))>> ELSE <<>>)
         \o TrustedProxies(Tail(cidrs))

\* strings.Index(s, piece): the first position of the piece, 0 when absent
IndexOfPiece(text, piece) ==
    IF \E k \in 1..Len(text) : text[k] = piece
    THEN CHOOSE k \in 1..Len(text) :
            text[k] = piece /\ \A j \in 1..(k - 1) : text[j] # piece
    ELSE 0

\* the last position of the piece, 0 when absent
LastIndexOfPiece(text, piece) ==
    IF \E k \in 1..Len(text) : text[k] = piece
    THEN CHOOSE k \in 1..Len(text) :
            text[k] = piece /\ \A j \in (k + 1)..Len(text) : text[j] # piece
    ELSE 0

\* strings.TrimSpace
RECURSIVE TrimSpace(_)
TrimSpace(text) ==
    IF text = <<>> THEN <<>>
    ELSE IF Head(text) = " " THEN TrimSpace(Tail(text))
    ELSE IF text[Len(text)] = " " THEN TrimSpace(SubSeq(text, 1, Len(text) - 1))
    ELSE text

\* strings.TrimPrefix(ip, "[") and strings.TrimSuffix(ip, "]")
TrimPrefix(text, piece) ==
    IF text # <<>> /\ Head(text) = piece THEN Tail(text) ELSE text
TrimSuffix(text, piece) ==
    IF text # <<>> /\ text[Len(text)] = piece
    THEN SubSeq(text, 1, Len(text) - 1) ELSE text

\* net.SplitHostPort: the host, or err.  The port starts behind the last
\* colon (missing port when there is none).  An address that starts with
\* "[" must have its first "]" right before that colon, and the host is
\* what the brackets hold; a bare host must hold no colon.  No "[" may
\* stand behind the first character of a bracketed address or anywhere in
\* a bare one, and no "]" behind the bracketed host or anywhere in a bare
\* address.  A colon is the separator or lies in the text of an IPv6
\* address, which does not end with one.
SplitHostPort(addr) ==
    LET HasColon(piece) == piece = ":" \/ piece \in V6Texts
        colons == {k \in 1..Len(addr) : HasColon(addr[k])}
        i == IF colons = {} THEN 0 ELSE CHOOSE k \in colons : \A j \in colons : j <= k
        bracketed == addr # <<>> /\ Head(addr) = "["
        end == IndexOfPiece(addr, "]")
        host == IF bracketed THEN SubSeq(addr, 2, end - 1) ELSE SubSeq(addr, 1, i - 1)
        open == IF bracketed THEN 2 ELSE 1
        close == IF bracketed THEN end + 1 ELSE 1
        failed == [host |-> <<>>, err |-> TRUE]
    IN  IF i = 0 \/ addr[i] # ":" THEN failed
        ELSE IF bracketed /\ (end = 0 \/ end + 1 # i) THEN failed
        ELSE IF ~bracketed /\ \E h \in 1..Len(host) : HasColon(host[h]) THEN failed
        ELSE IF \E h \in open..Len(addr) : addr[h] = "[" THEN failed
        ELSE IF \E h \in close..Len(addr) : addr[h] = "]" THEN failed
        ELSE [host |-> host, err |-> FALSE]

\* remoteIPStr: the host of r.RemoteAddr, or all of it when it does not
\* split
RemoteIPStr(remoteAddr) ==
    IF SplitHostPort(remoteAddr).err THEN remoteAddr
    ELSE SplitHostPort(remoteAddr).host

\* a middleware that takes every peer for a trusted proxy
TrustAll(trusted, remoteIPStr) == TRUE

\* isTrusted: the peer address parses and lies in one of the networks
IsTrusted(trusted, remoteIPStr) ==
    /\ ParseIP(remoteIPStr) # Nil
    /\ \E k \in 1..Len(trusted) : NetContains(trusted[k], ParseIP(remoteIPStr))

\* the ip the handler of the middleware puts in the context
ClientIP(trusted, remoteAddr, header) ==
    LET remoteIPStr == RemoteIPStr(remoteAddr)
        xff == header.X_Forwarded_For
        comma == IndexOfPiece(xff, ",")
        fromXff == IF xff = <<>> THEN <<>>
                   ELSE IF comma # 0 THEN TrimSpace(SubSeq(xff, 1, comma - 1))
                   ELSE TrimSpace(xff)
        fromXri == IF fromXff = <<>> /\ header.X_Real_IP # <<>>
                   THEN TrimSpace(header.X_Real_IP) ELSE fromXff
        forwarded == IF IsTrusted(trusted, remoteIPStr) THEN fromXri ELSE <<>>
        ip == IF forwarded = <<>> THEN remoteIPStr ELSE forwarded
    IN  TrimSuffix(TrimPrefix(ip, "["), "]")

\* nil, 10.0.0.0/8, 127.0.0.1/32, the text 10.0.0/8 that is no CIDR
\* before 10.0.0.0/8, 0.0.0.0/0, 10.0.0.0/08 and 10.0.0.0/33
TrustedLists ==
    {<<>>, <<Cidr(10, 0, 0, 0, 8)>>, <<Cidr(127, 0, 0, 1, 32)>>,
     <<<<"10", ".", "0", ".", "0", "/", "8">>, Cidr(10, 0, 0, 0, 8)>>,
     <<Cidr(0, 0, 0, 0, 0)>>,
     <<V4(10, 0, 0, 0) \o <<"/", "0", "8">>>>,
     <<Cidr(10, 0, 0, 0, 33)>>}

\* well-formed addresses of a peer, a text without port, and the texts
\* 1.1.1.1]:80 and [::1]]:80 with a bracket out of place
RemoteAddrs ==
    {V4(1, 1, 1, 1) \o <<":", "1234">>, V4(10, 0, 0, 1) \o <<":", "5678">>,
     V4(127, 0, 0, 1) \o <<":", "5678">>, V4(192, 168, 1, 1) \o <<":", "5678">>,
     <<"[", "::1", "]", ":", "1234">>, <<"invalid-addr">>, V4(10, 0, 0, 1),
     V4(1, 1, 1, 1) \o <<"]", ":", "80">>,
     <<"[", "::1", "]", "]", ":", "80">>}

ForwardingHeaders ==
    [X_Forwarded_For : {<<>>, V4(8, 8, 8, 8), <<" ">>,
                        <<" ">> \o V4(3, 3, 3, 3) \o <<",", " ">> \o V4(4, 4, 4, 4)},
     X_Real_IP : {<<>>, V4(5, 5, 5, 5)}]

\* two requests from the same peer, each with its own forwarding headers;
\* ret[k] is the client IP stored for the k-th once it was served
InitClientIP ==
    /\ call \in [op : {"ClientIP"}, trustedProxiesCIDR : TrustedLists,
                 RemoteAddr : RemoteAddrs,
                 Header : [1..2 -> ForwardingHeaders]]
    /\ ret = [k \in 1..2 |-> Pending]
    /\ PipelineIdle
    /\ CacheIdle
    /\ ShutdownIdle

ServeClientIP(k) ==
    /\ call.op = "ClientIP"
    /\ ret[k] = Pending
    /\ ret' = [ret EXCEPT ![k] =
                  [ip |-> ClientIP(TrustedProxies(call.trustedProxiesCIDR),
                                   call.RemoteAddr, call.Header[k])]]
    /\ UNCHANGED <<call, notCall>>

NextClientIP == \E k \in 1..2 : ServeClientIP(k)

SpecClientIP == InitClientIP /\ [][NextClientIP]_vars

\* the peer of the call is inside one of the configured trusted networks
PeerTrusted ==
    LET ip == ParseIP(RemoteIPStr(call.RemoteAddr))
        nets == TrustedProxies(call.trustedProxiesCIDR)
    IN  ip # Nil /\ \E k \in 1..Len(nets) : NetContains(nets[k], ip)

\* C21: the stored client IP depends on X-Forwarded-For and X-Real-IP only
\* for a peer inside a trusted network: for an untrusted peer, or with an
\* empty trusted list, two requests with the same RemoteAddr get the same
\* client IP, the host of RemoteAddr, whatever forwarding headers they
\* carry.
C21_UntrustedPeerIgnoresHeaders ==
    (call.op = "ClientIP" /\ ~PeerTrusted) =>
        /\ (ret[1] # Pending /\ ret[2] # Pending) => ret[1].ip = ret[2].ip
        /\ \A k \in 1..2 :
              ret[k] # Pending =>
                  ret[k].ip = TrimSuffix(TrimPrefix(RemoteIPStr(call.RemoteAddr), "["), "]")

\* C21 witness: an untrusted peer with a trusted list that is not empty,
\* two requests with different X-Forwarded-For, both served with the
\* peer's own address.
C21_Witness ==
    /\ call.op = "ClientIP"
    /\ call.trustedProxiesCIDR = <<Cidr(10, 0, 0, 0, 8)>>
    /\ call.RemoteAddr = V4(192, 168, 1, 1) \o <<":", "5678">>
    /\ call.Header[1].X_Forwarded_For = V4(8, 8, 8, 8)
    /\ call.Header[2].X_Forwarded_For =
          <<" ">> \o V4(3, 3, 3, 3) \o <<",", " ">> \o V4(4, 4, 4, 4)
    /\ ret[1] = [ip |-> V4(192, 168, 1, 1)]
    /\ ret[2] = [ip |-> V4(192, 168, 1, 1)]

\* a trusted peer's headers are used: two requests of one trusted peer
\* were given different client IPs
TrustedPeerUsesHeaders ==
    /\ call.op = "ClientIP"
    /\ PeerTrusted
    /\ ret[1] = [ip |-> V4(3, 3, 3, 3)]
    /\ ret[2] = [ip |-> V4(5, 5, 5, 5)]


----------------------------------------------------------------------------
(* Cookies: SetCookie and GetCookie.                                       *)

MaxCookieOptions == 2
MaxCookies == 3

\* A cookie name is the sequence of its pieces, "__" being a piece of its
\* own and so what follows it in a prefix: "__Host-token" is
\* <<"__", "Host-", "token">>, "__x" is <<"__", "x">>.
HostPrefix == <<"__", "Host-">>
SecurePrefix == <<"__", "Secure-">>

\* the cookie SetCookie starts from
DefaultCookie(name, value) ==
    [Name |-> name, Value |-> value, Path |-> "/", Domain |-> "",
     HttpOnly |-> TRUE, Secure |-> TRUE, SameSite |-> "Lax", MaxAge |-> 0,
     Expires |-> Nil]

\* a cookie option: its constructor, the text it was given, and for
\* WithCookieTTL the duration in milliseconds
CookieOpt(opt, arg) == [opt |-> opt, arg |-> arg, ttl |-> 0]
WithCookieTTL(ms) == [opt |-> "WithCookieTTL", arg |-> "", ttl |-> ms]

\* the cookie options, each applied to the cookie; the durations are
\* 24 * time.Hour and half a second
CookieOptions ==
    {CookieOpt("WithCookieDomain", "api.example.com"),
     CookieOpt("WithCookieDomain", ""),
     CookieOpt("WithCookiePath", "/api"),
     CookieOpt("WithCookiePath", "/"),
     CookieOpt("WithSameSiteStrict", ""),
     CookieOpt("WithSameSiteNone", ""),
     CookieOpt("WithExposed", ""),
     CookieOpt("WithInsecure", ""),
     WithCookieTTL(86400000),
     WithCookieTTL(500)}

\* int(duration.Seconds()): the whole seconds, cut towards zero
Seconds(ms) == IF ms >= 0 THEN ms \div 1000 ELSE 0 - ((0 - ms) \div 1000)

\* a time is Nil (the zero time), <<"epoch">> (time.Unix(0, 0)) or
\* <<"now", ms>> (time.Now().Add(duration))
ApplyCookieOption(o, c) ==
    CASE o.opt = "WithCookieTTL" ->
            [c EXCEPT !.MaxAge = Seconds(o.ttl),
                      !.Expires = IF o.ttl > 0 THEN <<"now", o.ttl>> ELSE @]
      [] o.opt = "WithCookieDomain" -> [c EXCEPT !.Domain = o.arg]
      [] o.opt = "WithCookiePath" -> [c EXCEPT !.Path = o.arg]
      [] o.opt = "WithSameSiteStrict" -> [c EXCEPT !.SameSite = "Strict"]
      [] o.opt = "WithSameSiteNone" -> [c EXCEPT !.SameSite = "None", !.Secure = TRUE]
      [] o.opt = "WithExposed" -> [c EXCEPT !.HttpOnly = FALSE]
      [] o.opt = "WithInsecure" -> [c EXCEPT !.Secure = FALSE]

\* for _, opt := range opts { opt(c) }
RECURSIVE ApplyCookieOptions(_, _)
ApplyCookieOptions(opts, c) ==
    IF opts = <<>> THEN c
    ELSE ApplyCookieOptions(Tail(opts), ApplyCookieOption(Head(opts), c))

\* resolveWriteName that gives __Host- to every secure cookie
resolveWriteNameAlwaysHost(name, c) ==
    IF HasPrefix(name, HostPrefix) \/ HasPrefix(name, SecurePrefix) THEN name
    ELSE IF ~c.Secure THEN name
    ELSE HostPrefix \o name

resolveWriteName(name, c) ==
    IF HasPrefix(name, HostPrefix) \/ HasPrefix(name, SecurePrefix) THEN name
    ELSE IF ~c.Secure THEN name
    ELSE IF c.Path = "/" /\ c.Domain = "" THEN HostPrefix \o name
    ELSE SecurePrefix \o name

\* SetCookie(w, name, value, opts...): the Set-Cookie values of w after it;
\* http.SetCookie adds one value for a cookie with a valid name
SetCookie(setCookies, name, value, opts) ==
    LET c == ApplyCookieOptions(opts, DefaultCookie(name, value))
    IN  Append(setCookies, [c EXCEPT !.Name = resolveWriteName(name, c)])

\* r.Cookie(name): the first cookie of the request with that name
Cookie(cookies, name) ==
    IF \E k \in 1..Len(cookies) : cookies[k].Name = name
    THEN [c |-> cookies[CHOOSE k \in 1..Len(cookies) :
                    /\ cookies[k].Name = name
                    /\ \A j \in 1..(k - 1) : cookies[j].Name # name],
          err |-> Nil]
    ELSE [c |-> Nil, err |-> <<"http: named cookie not present">>]

ErrNoCookie == <<"http: named cookie not present">>

\* GetCookie that takes the plain cookie when there is one
GetCookiePlainFirst(cookies, name) ==
    IF Cookie(cookies, name).err = Nil
    THEN [value |-> Cookie(cookies, name).c.Value, err |-> Nil]
    ELSE IF Cookie(cookies, HostPrefix \o name).err = Nil
    THEN [value |-> Cookie(cookies, HostPrefix \o name).c.Value, err |-> Nil]
    ELSE IF Cookie(cookies, SecurePrefix \o name).err = Nil
    THEN [value |-> Cookie(cookies, SecurePrefix \o name).c.Value, err |-> Nil]
    ELSE [value |-> "", err |-> ErrNoCookie]

\* GetCookie(r, name)
GetCookie(cookies, name) ==
    IF Cookie(cookies, HostPrefix \o name).err = Nil
    THEN [value |-> Cookie(cookies, HostPrefix \o name).c.Value, err |-> Nil]
    ELSE IF Cookie(cookies, SecurePrefix \o name).err = Nil
    THEN [value |-> Cookie(cookies, SecurePrefix \o name).c.Value, err |-> Nil]
    ELSE IF Cookie(cookies, name).err = Nil
    THEN [value |-> Cookie(cookies, name).c.Value, err |-> Nil]
    ELSE [value |-> "", err |-> ErrNoCookie]

\* a plain name, names that carry a prefix, and the name "__x"
CookieNames ==
    {<<"token">>, HostPrefix \o <<"manual">>, SecurePrefix \o <<"manual">>,
     <<"__", "x">>}

\* the cookies a request carries: the three variants of "token" and
\* another cookie, with a value each
RequestCookies ==
    [Name : {HostPrefix \o <<"token">>, SecurePrefix \o <<"token">>, <<"token">>,
             <<"other">>},
     Value : {"good", "evil"}]

\* the cookie DelCookie starts from: MaxAge -1, Expires 1970-01-01, no
\* SameSite
ExpiredCookie ==
    [Name |-> <<>>, Value |-> "", Path |-> "/", Domain |-> "",
     HttpOnly |-> TRUE, Secure |-> TRUE, SameSite |-> "", MaxAge |-> -1,
     Expires |-> <<"epoch">>]

\* the Set-Cookie value DelCookie emits for one name: a copy of the
\* template under that name, Secure forced for a name that starts with "__"
DelVariant(base, vName) ==
    [base EXCEPT !.Name = vName, !.Value = "",
                 !.Secure = IF HasPrefix(vName, <<"__">>) THEN TRUE ELSE @]

\* DelCookie(w, name, opts...): the Set-Cookie values of w after it, one
\* for each of __Host-name, __Secure-name and name
DelCookie(setCookies, name, opts) ==
    LET baseCookie == ApplyCookieOptions(opts, ExpiredCookie)
    IN  setCookies \o << DelVariant(baseCookie, HostPrefix \o name),
                         DelVariant(baseCookie, SecurePrefix \o name),
                         DelVariant(baseCookie, name) >>

InitCookie ==
    /\ \/ call \in [op : {"SetCookie"}, name : CookieNames, value : {"payload"},
                    opts : SeqsUpTo(CookieOptions, MaxCookieOptions)]
       \/ call \in [op : {"DelCookie"}, name : CookieNames,
                    opts : SeqsUpTo(CookieOptions, MaxCookieOptions)]
       \/ call \in [op : {"GetCookie"}, name : {<<"token">>},
                    cookies : SeqsUpTo(RequestCookies, MaxCookies)]
    /\ ret = Pending
    /\ PipelineIdle
    /\ CacheIdle
    /\ ShutdownIdle

CallSetCookie ==
    /\ call.op = "SetCookie"
    /\ ret = Pending
    /\ ret' = [setCookies |-> SetCookie(<<>>, call.name, call.value, call.opts)]
    /\ UNCHANGED <<call, notCall>>

CallGetCookie ==
    /\ call.op = "GetCookie"
    /\ ret = Pending
    /\ ret' = GetCookie(call.cookies, call.name)
    /\ UNCHANGED <<call, notCall>>

CallDelCookie ==
    /\ call.op = "DelCookie"
    /\ ret = Pending
    /\ ret' = [setCookies |-> DelCookie(<<>>, call.name, call.opts)]
    /\ UNCHANGED <<call, notCall>>

NextCookie == CallSetCookie \/ CallGetCookie \/ CallDelCookie

SpecCookie == InitCookie /\ [][NextCookie]_vars

\* the attributes a SetCookie call ends with: the defaults, changed by the
\* options in order, a later option overriding an earlier one
RECURSIVE FinalAttribute(_, _, _)
FinalAttribute(opts, attr, default) ==
    IF opts = <<>> THEN default
    ELSE LET o == opts[Len(opts)]
             rest == SubSeq(opts, 1, Len(opts) - 1)
         IN  CASE attr = "Secure" /\ o.opt = "WithInsecure" -> FALSE
               [] attr = "Secure" /\ o.opt = "WithSameSiteNone" -> TRUE
               [] attr = "Path" /\ o.opt = "WithCookiePath" -> o.arg
               [] attr = "Domain" /\ o.opt = "WithCookieDomain" -> o.arg
               [] OTHER -> FinalAttribute(rest, attr, default)

\* C22: SetCookie chooses the written name from the final attributes: a
\* name that already starts with __Host- or __Secure- is kept; otherwise
\* __Host- is put in front when Secure is true, Path is "/" and Domain is
\* empty, __Secure- when Secure is true but Path or Domain differ, and
\* nothing when Secure is false; exactly one Set-Cookie is emitted.
C22_WriteNameFromFinalAttributes ==
    (call.op = "SetCookie" /\ ret # Pending) =>
        LET secure == FinalAttribute(call.opts, "Secure", TRUE)
            path == FinalAttribute(call.opts, "Path", "/")
            domain == FinalAttribute(call.opts, "Domain", "")
            prefixed == \/ HasPrefix(call.name, HostPrefix)
                        \/ HasPrefix(call.name, SecurePrefix)
            written == ret.setCookies[1]
        IN  /\ Len(ret.setCookies) = 1
            /\ written.Secure = secure /\ written.Path = path /\ written.Domain = domain
            /\ prefixed => written.Name = call.name
            /\ (~prefixed /\ secure /\ path = "/" /\ domain = "") =>
                   written.Name = HostPrefix \o call.name
            /\ (~prefixed /\ secure /\ ~(path = "/" /\ domain = "")) =>
                   written.Name = SecurePrefix \o call.name
            /\ (~prefixed /\ ~secure) => written.Name = call.name

\* C22 witness: WithInsecure, then WithSameSiteNone, which turns Secure on
\* again: the name "token" was written as __Host-token.
C22_Witness ==
    /\ call.op = "SetCookie"
    /\ call.name = <<"token">>
    /\ call.opts = <<CookieOpt("WithInsecure", ""),
                     CookieOpt("WithSameSiteNone", "")>>
    /\ ret # Pending
    /\ ret.setCookies[1].Name = HostPrefix \o <<"token">>

\* a domain downgrades the prefix: token was written as __Secure-token
SecurePrefixWritten ==
    /\ call.op = "SetCookie"
    /\ ret # Pending
    /\ call.name = <<"token">>
    /\ ret.setCookies[1].Domain = "api.example.com"
    /\ ret.setCookies[1].Name = SecurePrefix \o <<"token">>

\* C23: GetCookie(r, name) returns the value of the most secure variant
\* present, __Host-name before __Secure-name before name, wherever the
\* cookies stand in the request: a plain cookie never shadows a prefixed
\* one, and ErrNoCookie is returned only when none of the three is there.
C23_MostSecureVariantWins ==
    (call.op = "GetCookie" /\ ret # Pending) =>
        LET named(n) == {k \in 1..Len(call.cookies) : call.cookies[k].Name = n}
            host == named(HostPrefix \o call.name)
            secure == named(SecurePrefix \o call.name)
            plain == named(call.name)
            best == IF host # {} THEN host ELSE IF secure # {} THEN secure ELSE plain
        IN  /\ (ret.err # Nil) <=> (host = {} /\ secure = {} /\ plain = {})
            /\ ret.err # Nil => ret.err = ErrNoCookie /\ ret.value = ""
            /\ ret.err = Nil => ret.value = call.cookies[Min(best)].Value

\* C23 witness: a plain cookie planted in front of the __Host- one: the
\* value read is the __Host- cookie's.
C23_Witness ==
    /\ call.op = "GetCookie"
    /\ ret # Pending
    /\ Len(call.cookies) = 2
    /\ call.cookies[1] = [Name |-> <<"token">>, Value |-> "evil"]
    /\ call.cookies[2] = [Name |-> HostPrefix \o <<"token">>, Value |-> "good"]
    /\ ret = [value |-> "good", err |-> Nil]


----------------------------------------------------------------------------
(* FormBinder.Bind on a multipart request with uploaded files.             *)

MaxFiles == 3

\* An uploaded file is <<form key, file name>>; a *multipart.FileHeader
\* field holds one (Nil for the nil pointer), a []*multipart.FileHeader
\* field a sequence of them.
\*
\* type UploadReq struct {
\*     Title string                  `form:"title"`
\*     File  *multipart.FileHeader   `form:"file"`
\*     Files []*multipart.FileHeader `form:"files"`
\*     file  *multipart.FileHeader
\*     Docs  []*multipart.FileHeader `json:"file,omitempty"` }
UploadReq ==
    << Field("Title", <<"title">>, <<"">>, ""),
       [Field("File", <<"file">>, <<"">>, "") EXCEPT !.kind = "file"],
       [Field("Files", <<"files">>, <<"">>, "") EXCEPT !.kind = "files"],
       [Field("file", <<"">>, <<"">>, "") EXCEPT !.kind = "file", !.exported = FALSE],
       [Field("Docs", <<"">>, <<"file", "omitempty">>, "") EXCEPT !.kind = "files"] >>

FileKeys == {"file", "files", "x"}
FileNames == {"a.txt", "b.txt"}
Uploads == SeqsUpTo(FileKeys \X FileNames, MaxFiles)

\* r.MultipartForm.File[key]: the files uploaded under the key, in the
\* order of their parts
RECURSIVE FilesUnder(_, _)
FilesUnder(files, key) ==
    IF files = <<>> THEN <<>>
    ELSE (IF Head(files)[1] = key THEN <<Head(files)>> ELSE <<>>)
         \o FilesUnder(Tail(files), key)

\* bindFilesOptimized that takes the last file of a key for a single-file
\* field
bindFilesLast(files, t, v) ==
    LET meta == getStructMeta(t)
    IN  [i \in DOMAIN v |->
            IF \E k \in DOMAIN meta.fileFields : meta.fileFields[k].fieldIdx = i
            THEN LET info == meta.fileFields[CHOOSE k \in DOMAIN meta.fileFields :
                                                meta.fileFields[k].fieldIdx = i]
                     fs == FilesUnder(files, info.formKey)
                 IN  IF Len(fs) = 0 \/ ~t[i].exported THEN v[i]
                     ELSE IF info.isSlice THEN fs
                     ELSE fs[Len(fs)]
            ELSE v[i]]

\* bindFilesOptimized(r, v): the record after the loop over meta.fileFields
bindFilesOptimized(files, t, v) ==
    LET meta == getStructMeta(t)
    IN  [i \in DOMAIN v |->
            IF \E k \in DOMAIN meta.fileFields : meta.fileFields[k].fieldIdx = i
            THEN LET info == meta.fileFields[CHOOSE k \in DOMAIN meta.fileFields :
                                                meta.fileFields[k].fieldIdx = i]
                     fs == FilesUnder(files, info.formKey)
                 IN  IF Len(fs) = 0 \/ ~t[i].exported THEN v[i]
                     ELSE IF info.isSlice THEN fs
                     ELSE fs[1]
            ELSE v[i]]

\* FormBinder.Bind on a parsed multipart request with text values form and
\* uploaded files: the text fields by the schema decoder, then the file
\* fields when there is an uploaded file at all
FormBindFiles(form, files, t, v) ==
    {IF d.err # Nil
     THEN [v |-> d.v, err |-> Wrap("decode form error", d.err)]
     ELSE [v |-> IF Len(files) > 0 THEN bindFilesOptimized(files, t, d.v) ELSE d.v,
           err |-> Nil] :
        d \in SchemaDecode(t, v, form)}

\* the record Bind is given: fresh, or with file fields set before
UploadRecords ==
    {<<"", Nil, <<>>, Nil, <<>>>>,
     <<"", <<"file", "old.txt">>, << <<"files", "old.txt">> >>,
       <<"file", "old.txt">>, << <<"file", "old.txt">> >> >>}

InitUpload ==
    /\ call \in [op : {"FormBind"}, t : {UploadReq}, v : UploadRecords,
                 form : {<<>>, << <<"title", "Doc1">> >>},
                 files : Uploads]
    /\ ret = Pending
    /\ PipelineIdle
    /\ CacheIdle
    /\ ShutdownIdle

CallFormBind ==
    /\ call.op = "FormBind"
    /\ ret = Pending
    /\ ret' \in FormBindFiles(call.form, call.files, call.t, call.v)
    /\ UNCHANGED <<call, notCall>>

NextUpload == CallFormBind

SpecUpload == InitUpload /\ [][NextUpload]_vars

\* C24: after form binding of a multipart request, a single-file field
\* holds exactly the first file uploaded under its form key, a file-list
\* field holds every file uploaded under its key in submission order, and
\* a file field whose key has no uploaded file, and every unexported
\* field, is left unchanged.
C24_FileFieldsBound ==
    (call.op = "FormBind" /\ ret # Pending /\ ret.err = Nil) =>
        \A i \in DOMAIN call.t :
            LET f == call.t[i]
                key == IF TagKey(f.form) # "" THEN TagKey(f.form)
                       ELSE IF TagKey(f.json) # "" THEN TagKey(f.json)
                       ELSE f.name
                under == SelectSeq(call.files, LAMBDA u : u[1] = key)
            IN  /\ (f.kind = "file" /\ f.exported /\ under # <<>>) =>
                      ret.v[i] = under[1]
                /\ (f.kind = "files" /\ f.exported /\ under # <<>>) =>
                      ret.v[i] = under
                /\ (f.kind \in {"file", "files"} /\ (~f.exported \/ under = <<>>)) =>
                      ret.v[i] = call.v[i]

\* C24 witness: two files under "file" with one under "files" between
\* them: File holds the first, Docs (keyed "file" by its json tag) both in
\* order, Files the one, and the unexported field is still nil.
C24_Witness ==
    /\ call.op = "FormBind"
    /\ ret # Pending
    /\ call.v[2] = Nil
    /\ call.files = << <<"file", "b.txt">>, <<"files", "a.txt">>, <<"file", "a.txt">> >>
    /\ ret.err = Nil
    /\ ret.v[2] = <<"file", "b.txt">>
    /\ ret.v[3] = << <<"files", "a.txt">> >>
    /\ ret.v[4] = Nil
    /\ ret.v[5] = << <<"file", "b.txt">>, <<"file", "a.txt">> >>


----------------------------------------------------------------------------
(* Chain and Router: middlewares around a handler.                         *)

MaxMiddlewares == 3

\* A handler is <<"H">> (the final handler), <<"mw", m, next>> (what
\* middleware m returns for next: it does its work, calls next.ServeHTTP
\* once and does its work after), or <<"StripPrefix", "sub">> (the mount of
\* the sub-router: it serves from the sub-router's mux).
FinalHandler == <<"H">>
Wrapped(m, next) == <<"mw", m, next>>

\* Chain that wraps in declaration order: mn ends up outermost
RECURSIVE ChainForward(_, _)
ChainForward(h, mws) ==
    IF mws = <<>> THEN h
    ELSE ChainForward(Wrapped(Head(mws), h), Tail(mws))

\* Chain(h, mws...): for i := len(mws) - 1; i >= 0; i-- { h = mws[i](h) }
RECURSIVE Chain(_, _)
Chain(h, mws) ==
    IF mws = <<>> THEN h
    ELSE Chain(Wrapped(mws[Len(mws)], h), SubSeq(mws, 1, Len(mws) - 1))

\* Router.Handle: the handler registered on the mux, the router's
\* middlewares applied from the last to the first
RECURSIVE RouterHandle(_, _)
RouterHandle(middlewares, handler) ==
    IF middlewares = <<>> THEN handler
    ELSE RouterHandle(SubSeq(middlewares, 1, Len(middlewares) - 1),
                      Wrapped(middlewares[Len(middlewares)], handler))

\* the middlewares of a chain or a group: different middlewares in some
\* order; 9 is a middleware of the parent router
MiddlewareLists ==
    {mws \in SeqsUpTo(1..MaxMiddlewares, MaxMiddlewares) :
        \A a, b \in DOMAIN mws : a # b => mws[a] # mws[b]}
ParentMiddleware == 9

\* ret.mux and ret.sub: the handlers registered on the (parent) mux and
\* on the sub-router's mux; ret.cur: the handler whose ServeHTTP is called
\* next; ret.stack: what the middlewares entered do after next.ServeHTTP
\* returns, innermost first; ret.trace: what ran, in order
InitChain ==
    /\ \/ call \in [op : {"Chain"}, mws : MiddlewareLists, parent : {<<>>}]
       \/ call \in [op : {"Group"}, mws : MiddlewareLists,
                    parent : {<<>>, <<ParentMiddleware>>}]
    /\ ret = [pc |-> "build", mux |-> Nil, sub |-> Nil, cur |-> Nil,
              stack |-> <<>>, trace |-> <<>>]
    /\ PipelineIdle
    /\ CacheIdle
    /\ ShutdownIdle

\* chain := Chain(finalHandler, mws...)
BuildChain ==
    /\ call.op = "Chain"
    /\ ret.pc = "build"
    /\ ret' = [ret EXCEPT !.pc = "serve", !.mux = Chain(FinalHandler, call.mws),
                          !.cur = Chain(FinalHandler, call.mws)]
    /\ UNCHANGED <<call, notCall>>

\* group := router.Group("/api", mws...); group.HandleFunc(pattern, h)
BuildGroup ==
    /\ call.op = "Group"
    /\ ret.pc = "build"
    /\ ret' = [ret EXCEPT
                 !.pc = "serve",
                 !.mux = RouterHandle(call.parent, <<"StripPrefix", "sub">>),
                 !.cur = RouterHandle(call.parent, <<"StripPrefix", "sub">>),
                 !.sub = RouterHandle(call.mws, FinalHandler)]
    /\ UNCHANGED <<call, notCall>>

\* a middleware is entered: its work before next.ServeHTTP
ServeEnter ==
    /\ ret.pc = "serve"
    /\ ret.cur[1] = "mw"
    /\ ret' = [ret EXCEPT !.trace = Append(@, <<"in", ret.cur[2]>>),
                          !.stack = << <<"out", ret.cur[2]>> >> \o @,
                          !.cur = ret.cur[3]]
    /\ UNCHANGED <<call, notCall>>

\* the mount: http.StripPrefix passes the request to the sub-router's mux
ServeMount ==
    /\ ret.pc = "serve"
    /\ ret.cur[1] = "StripPrefix"
    /\ ret' = [ret EXCEPT !.cur = ret.sub]
    /\ UNCHANGED <<call, notCall>>

\* the final handler runs and returns
ServeHandler ==
    /\ ret.pc = "serve"
    /\ ret.cur[1] = "H"
    /\ ret' = [ret EXCEPT !.trace = Append(@, <<"H">>),
                          !.pc = "return", !.cur = Nil]
    /\ UNCHANGED <<call, notCall>>

\* next.ServeHTTP returned to a middleware: its work after it
ServeLeave ==
    /\ ret.pc = "return"
    /\ ret.stack # <<>>
    /\ ret' = [ret EXCEPT !.trace = Append(@, Head(ret.stack)),
                          !.stack = Tail(@)]
    /\ UNCHANGED <<call, notCall>>

\* ServeHTTP of the outermost handler returned
ServeDone ==
    /\ ret.pc = "return"
    /\ ret.stack = <<>>
    /\ ret' = [ret EXCEPT !.pc = "done"]
    /\ UNCHANGED <<call, notCall>>

NextChain ==
    \/ BuildChain
    \/ BuildGroup
    \/ ServeEnter
    \/ ServeMount
    \/ ServeHandler
    \/ ServeLeave
    \/ ServeDone

SpecChain == InitChain /\ [][NextChain]_vars

\* the sequence in reverse
RECURSIVE Reverse(_)
Reverse(xs) ==
    IF xs = <<>> THEN <<>> ELSE Append(Reverse(Tail(xs)), Head(xs))

\* m1(m2(...mn(h))) for the middlewares m1, ..., mn
RECURSIVE Nested(_)
Nested(mws) ==
    IF mws = <<>> THEN FinalHandler ELSE Wrapped(Head(mws), Nested(Tail(mws)))

\* C25: Chain(h, m1, ..., mn) and a Router group created with m1, ..., mn
\* both build m1(m2(...mn(h))): on a request each middleware runs exactly
\* once, in declaration order on the way in, then the handler, and in
\* reverse order on the way out.
C25_MiddlewareOrder ==
    call.op \in {"Chain", "Group"} =>
        LET own == SelectSeq(ret.trace,
                             LAMBDA e : e = <<"H">> \/ e[2] # ParentMiddleware)
            expected == [k \in DOMAIN call.mws |-> <<"in", call.mws[k]>>]
                        \o << <<"H">> >>
                        \o Reverse([k \in DOMAIN call.mws |-> <<"out", call.mws[k]>>])
        IN  /\ Len(own) <= Len(expected)
            /\ own = SubSeq(expected, 1, Len(own))
            /\ ret.pc = "done" => own = expected
            /\ ret.pc \in {"serve", "return", "done"} =>
                  (IF call.op = "Chain" THEN ret.mux ELSE ret.sub)
                      = Nested(call.mws)

\* C25 witness: a group with middlewares 2, 1, 3 under a parent with a
\* middleware of its own served a request: in 2, in 1, in 3, the handler,
\* out 3, out 1, out 2, inside the parent's middleware.
C25_Witness ==
    /\ call.op = "Group"
    /\ call.mws = <<2, 1, 3>>
    /\ call.parent = <<ParentMiddleware>>
    /\ ret.pc = "done"
    /\ ret.trace = << <<"in", 9>>, <<"in", 2>>, <<"in", 1>>, <<"in", 3>>, <<"H">>,
                      <<"out", 3>>, <<"out", 1>>, <<"out", 2>>, <<"out", 9>> >>

\* Chain served a request through three middlewares
ChainServed ==
    /\ call.op = "Chain"
    /\ call.mws = <<1, 2, 3>>
    /\ ret.pc = "done"
    /\ ret.trace = << <<"in", 1>>, <<"in", 2>>, <<"in", 3>>, <<"H">>,
                      <<"out", 3>>, <<"out", 2>>, <<"out", 1>> >>


\* C26: with SafeMode, for an error that is no *HttpError, supplies no
\* non-empty PublicMessage and is answered with status 500 or above, the
\* message written to the client is the fixed text "Internal Server
\* Error", never the error's own text; the message of a *HttpError and a
\* non-empty PublicMessage are passed through.  The message written is
\* that of the body Error has written, envelope or not.
C26_SafeModeMasksMessage ==
    (/\ call.op = "Error"
     /\ ret.pc = "done"
     /\ ~ret.delegated
     /\ ret.rw.body.Message # Nil
     /\ call.SafeMode)
    => LET arg == call.arg
           message == ret.rw.body.Message
           public == arg.public # Nil /\ arg.public # <<"">>
       IN  /\ (~arg.isHttpError /\ ~public /\ ret.rw.status >= 500) =>
                  message = <<"Internal Server Error">> /\ message # arg.err.Msg
           /\ arg.isHttpError => message = arg.err.Msg
           /\ (~arg.isHttpError /\ public) => message = arg.public

\* what does hold: the message of an envelope is masked that way
EnvelopeMessageMasked ==
    (/\ call.op = "Error"
     /\ ret.pc = "done"
     /\ ~ret.delegated
     /\ ret.rw.body.envelope
     /\ call.SafeMode)
    => LET arg == call.arg
           message == ret.rw.body.Message
           public == arg.public # Nil /\ arg.public # <<"">>
       IN  /\ (~arg.isHttpError /\ ~public /\ ret.rw.status >= 500) =>
                  message = <<"Internal Server Error">> /\ message # arg.err.Msg
           /\ arg.isHttpError => message = arg.err.Msg
           /\ (~arg.isHttpError /\ public) => message = arg.public

\* SafeMode, WithNoEnvelope and an error of another type than *HttpError
\* whose JSON form holds its text: the body written carries the text
\* although the status is 500
OwnTextWritten ==
    /\ call.op = "Error"
    /\ ret.pc = "done"
    /\ call.SafeMode
    /\ call.noEnvelope
    /\ call.arg = [err |-> RawError, isHttpError |-> FALSE, public |-> Nil,
                   marshaler |-> FALSE, jsonText |-> TRUE]
    /\ ret.rw.status = StatusInternalServerError
    /\ ret.rw.body.Message = RawError.Msg


----------------------------------------------------------------------------
(* PathBinder.Bind on its own: the key it stages a path value under.       *)

\* type AccountReq struct {
\*     ID   string `path:"id" json:"user_id"`
\*     Slug string `path:"slug" form:"slug" json:"name"` }
AccountReq ==
    << Field("ID", <<"">>, <<"user_id">>, "id"),
       Field("Slug", <<"slug">>, <<"name">>, "slug") >>

\* type OrderReq struct {
\*     ID   int    `path:"id" form:"order_id,omitempty"`
\*     slug string `path:"slug"` }
OrderReq ==
    << IntField("ID", <<"order_id", "omitempty">>, <<"">>, "id"),
       [Field("slug", <<"">>, <<"">>, "slug") EXCEPT !.exported = FALSE] >>

\* type ShadowReq struct {
\*     id string
\*     ID string `path:"id"` }
ShadowReq ==
    << [Field("id", <<"">>, <<"">>, "") EXCEPT !.exported = FALSE],
       Field("ID", <<"">>, <<"">>, "id") >>

PathTypes == {UserReq, ItemReq, AccountReq, OrderReq, ShadowReq}

\* the path values of the route match: r.PathValue of "id" and "slug"
PathMatches ==
    [id : {"", "p", "42", "abc"}, slug : {"", "p", "a", "b"}]

InitPath ==
    /\ call \in [op : {"PathBind"}, t : PathTypes, path : PathMatches]
    /\ ret = Pending
    /\ PipelineIdle
    /\ CacheIdle
    /\ ShutdownIdle

\* (&PathBinder{}).Bind(r, &v) on a fresh record
CallPathBind ==
    /\ call.op = "PathBind"
    /\ ret = Pending
    /\ ret' \in PathBind([PlainRequest EXCEPT !.path = call.path], call.t, Zero(call.t))
    /\ UNCHANGED <<call, notCall>>

NextPath == CallPathBind

SpecPath == InitPath /\ [][NextPath]_vars

\* C27: for every exported field with a path annotation whose path
\* parameter is present and not empty, PathBinder.Bind leaves the
\* converted value in the field: the key the descriptor stages the value
\* under (form annotation, else json annotation, else field name) is one
\* the decoder maps to that field, also for a field named only through a
\* json annotation.
C27_PathValueReachesField ==
    (call.op = "PathBind" /\ ret # Pending) =>
        \A i \in DOMAIN call.t :
            LET f == call.t[i]
                pathVal == IF f.path # "" THEN call.path[f.path] ELSE ""
            IN  (f.exported /\ f.path # "" /\ pathVal # ""
                   /\ (f.kind = "int" => ParseInt(pathVal).ok))
                => ret.v[i] = IF f.kind = "int" THEN ParseInt(pathVal).n ELSE pathVal

\* the fields of the other types do get their path values: OrderReq with
\* id=42 has ID = 42 and the unexported slug untouched
OrderPathBound ==
    /\ call.op = "PathBind"
    /\ call.t = OrderReq
    /\ call.path = [id |-> "42", slug |-> "a"]
    /\ ret = [v |-> <<42, "">>, err |-> Nil]


----------------------------------------------------------------------------
(* The body ceiling a config stands for.                                   *)

\* prepare installs http.MaxBytesReader only when cfg.maxBodySize > 0
CeilingInstalled(c) == c.maxBodySize > 0

\* C28: applying WithMultipartLimit(limit) never makes the effective body
\* ceiling more restrictive than it was before the option: no ceiling
\* (maxBodySize <= 0) stays no ceiling, and a ceiling is not lowered.
C28_MultipartLimitKeepsCeiling ==
    call.op = "WithMultipartLimit" =>
        /\ ~CeilingInstalled(call.c) => ~CeilingInstalled(ret.c)
        /\ (CeilingInstalled(call.c) /\ CeilingInstalled(ret.c)) =>
              ret.c.maxBodySize >= call.c.maxBodySize


----------------------------------------------------------------------------
(* Callbacks registered around a Shutdown call.                            *)

\* C29: no callback of an in-flight request is lost by shutdown: once the
\* call of Shutdown that closes the manager has returned, with its context
\* still live, every callback RegisterOnShutdown has accepted from a
\* session that was active when Shutdown was called and is still in flight
\* has been executed, also one registered while Shutdown ran, after the
\* session's list was read, or after Shutdown returned.
C29_NoCallbackLost ==
    \A c \in Callers :
        (down[c].ran /\ down[c].pc = "returned" /\ down[c].ctx = "live") =>
            \A s \in DOMAIN down[c].atCall :
                inflight[s] = "handling" =>
                    Range(callbacks[s]) \subseteq Range(executed[s])


----------------------------------------------------------------------------
(* The descriptor cache never changes an entry it holds.                   *)

\* the tasks that computed a descriptor of their own on the slow path
Parsed == {k \in Tasks : getting[k].meta # Nil}

\* C30: a descriptor stored in the cache is never replaced, mutated or
\* evicted: in every step each entry of the cache stays as it is, every call
\* of getStructMeta that has returned, for the type or for a pointer to it,
\* returned the descriptor the cache holds for the type, and a duplicate a
\* concurrent first use computed is neither stored nor returned.
C30_StoredDescriptorIsStable ==
    [][ /\ \A t \in DOMAIN metaCache :
              t \in DOMAIN metaCache' /\ metaCache'[t] = metaCache[t]
        /\ \A k \in Tasks :
              getting'[k].pc = "done" =>
                  /\ Elem(getting'[k].t) \in DOMAIN metaCache'
                  /\ getting'[k].ret = metaCache'[Elem(getting'[k].t)]
        /\ \A k \in Tasks :
              (/\ getting'[k].pc = "done"
               /\ getting'[k].meta # Nil
               /\ \E l \in Tasks \ {k} :
                     /\ getting'[l].pc = "done"
                     /\ Elem(getting'[l].t) = Elem(getting'[k].t)
                     /\ getting'[l].ret = getting'[l].meta) =>
                  /\ getting'[k].ret # getting'[k].meta
                  /\ metaCache'[Elem(getting'[k].t)] # getting'[k].meta
      ]_vars

\* C30 witness: three calls for one type, one of them for the pointer, have
\* returned the one stored descriptor: the first to store returned its own,
\* a concurrent first use computed a duplicate and got the stored one back,
\* and a later call found it on the fast path.
C30_Witness ==
    /\ Returned = Tasks
    /\ \A k \in Tasks : getting[k].t.elem = UserReq
    /\ \E k \in Tasks : getting[k].t.ptr
    /\ \E k \in Parsed :
          /\ getting[k].ret = getting[k].meta
          /\ metaCache[Elem(getting[k].t)] = getting[k].meta
          /\ \E l \in Parsed \ {k} :
                /\ getting[l].meta.by = l
                /\ getting[l].ret = getting[k].meta
          /\ \E m \in Tasks \ Parsed : getting[m].ret = getting[k].meta


----------------------------------------------------------------------------
(* Repeated calls of Shutdown.                                             *)

\* the calls of Shutdown that found the manager open and closed it
Closers == {c \in Callers : down[c].ran}

\* C31: over sequential and concurrent calls of Shutdown on one manager each
\* registered callback is executed at most once: one call at most runs
\* callbacks (the first to pass the locked section), every goroutine that
\* runs callbacks belongs to it, and every other call has returned nil as
\* soon as it has left the locked section, having started no goroutine.
C31_CallbacksRunAtMostOnce ==
    /\ \A s \in Sessions : Cardinality(Range(executed[s])) = Len(executed[s])
    /\ Cardinality(Closers) <= 1
    /\ \A s \in Sessions : worker[s].st # "none" => worker[s].of \in Closers
    /\ \A c \in Callers \ Closers :
          down[c].pc # "idle" => down[c].pc = "returned" /\ down[c].ret = "nil"

\* C31 witness: two calls of Shutdown have returned nil; the one that closed
\* the manager ran every callback of a session that registered them all,
\* each once, the other ran none.
C31_Witness ==
    /\ \A c \in Callers : down[c].pc = "returned" /\ down[c].ret = "nil"
    /\ Cardinality(Closers) = 1
    /\ \E s \in Sessions :
          /\ Len(callbacks[s]) = MaxCallbacks
          /\ Len(executed[s]) = MaxCallbacks
          /\ Range(executed[s]) = Range(callbacks[s])


----------------------------------------------------------------------------
(* Two requests served at once by one handler.  The binder instances and  *)
(* the descriptor cache are shared; "var req Req" of prepare is a record  *)
(* of its own for every call, kept here in a heap of records.              *)

\* the requests served at the same time
Servings == {1, 2}

\* the query and the body members the two requests carry
SharedQueries == {<<>>, << <<"name", "b">> >>}
SharedBodies == {<<>>, << <<"id", "a">> >>, << <<"name", "a">> >>}

\* the requests: with or without a path value, a JSON or urlencoded body
SharedRequests ==
    {[Method |-> IF b = <<>> THEN "GET" ELSE "POST",
      path |-> [k \in PathKeys(UserReq) |-> p], RawQuery |-> q, ct |-> ct,
      body |-> b, bodyLen |-> Len(b) + Len(b),
      Body |-> IF b = <<>> THEN "NoBody" ELSE "reader", limit |-> 0, tail |-> ""] :
        p \in PathValues \cup {""},
        q \in SharedQueries,
        ct \in {CtJson, CtForm},
        b \in SharedBodies}

\* Bind(r, v, binders...) run to its end on a request of its own: the
\* outcomes, each the record it leaves and the error it returns
RECURSIVE Bind(_, _, _, _, _)
Bind(binders, rq, t, v, bound) ==
    IF binders = <<>> THEN {[v |-> v, err |-> Nil]}
    ELSE LET b == Head(binders)
         IN  IF ~Match(b, rq) \/ (b.type = BinderBody /\ bound)
             THEN Bind(Tail(binders), rq, t, v, bound)
             ELSE UNION {IF res.err # Nil THEN {res}
                         ELSE Bind(Tail(binders), rq, t, res.v,
                                   bound \/ b.type = BinderBody) :
                            res \in BinderBind(b, rq, t, v)}

\* a handler that keeps one record for all its calls
HandlerRecord(heap) == 1

\* "var req Req" in prepare: the address of a new record
NewRecord(heap) == Len(heap) + 1

\* the binders that look the type up in the descriptor cache
UsesMeta(b) == b.name = "path"

\* the key of type t in the descriptor cache
MetaKey(t) == [ptr |-> FALSE, elem |-> t]

\* metaCache.LoadOrStore(t, meta) by request k: the cache after it
CacheAfter(cache, t, k) ==
    LET key == MetaKey(t)
    IN  IF key \in DOMAIN cache THEN cache
        ELSE [u \in DOMAIN cache \cup {key} |->
                 IF u = key THEN [by |-> k, content |-> getStructMeta(t)] ELSE cache[u]]

InitShared ==
    /\ call \in [op : {"Serve"}, t : {UserReq}, cfg : Configs({Binders}),
                 rs : [Servings -> SharedRequests]]
    /\ ret = [heap |-> <<>>,
              run |-> [k \in Servings |->
                          [pc |-> "prepare", r |-> call.rs[k], at |-> 0, idx |-> 1,
                           bodyBound |-> FALSE, err |-> Nil, meta |-> Nil]]]
    /\ CacheIdle
    /\ PipelineIdle
    /\ ShutdownIdle

\* prepare of request k up to Bind: the ceiling is installed on the
\* request's body and the record is declared
SharedPrepare(k) ==
    /\ call # <<>> /\ call.op = "Serve"
    /\ ret.run[k].pc = "prepare"
    /\ ret' = [heap |-> Append(ret.heap, Zero(call.t)),
               run |-> [ret.run EXCEPT ![k] =
                   [@ EXCEPT !.pc = "Bind",
                             !.at = NewRecord(ret.heap),
                             !.r = IF call.cfg.maxBodySize > 0
                                   THEN MaxBytesReader(@, call.cfg.maxBodySize)
                                   ELSE @]]]
    /\ UNCHANGED <<call, metaCache, getting, pipelineVars, shutdownVars>>

\* request k stands at a binder that runs and has yet to get the descriptor
AtMetaBinder(k) ==
    /\ ret.run[k].pc = "Bind"
    /\ ret.run[k].idx <= Len(BindersOf(call.cfg))
    /\ UsesMeta(BindersOf(call.cfg)[ret.run[k].idx])
    /\ Match(BindersOf(call.cfg)[ret.run[k].idx], ret.run[k].r)
    /\ ret.run[k].meta = Nil

\* getStructMeta called by the binder of request k, metaCache.Load: a hit
\* returns the cached descriptor, a miss goes on to parse the type
SharedMetaLoad(k) ==
    /\ call # <<>> /\ call.op = "Serve"
    /\ AtMetaBinder(k)
    /\ ret' = IF MetaKey(call.t) \in DOMAIN metaCache
              THEN [ret EXCEPT !.run[k].meta = <<metaCache[MetaKey(call.t)].content>>]
              ELSE [ret EXCEPT !.run[k].pc = "parse"]
    /\ UNCHANGED <<call, metaCache, getting, pipelineVars, shutdownVars>>

\* getStructMeta of request k after the parse, metaCache.LoadOrStore: the
\* descriptor of the cache is returned, the request's own when none was
\* there
SharedMetaLoadOrStore(k) ==
    /\ call # <<>> /\ call.op = "Serve"
    /\ ret.run[k].pc = "parse"
    /\ metaCache' = CacheAfter(metaCache, call.t, k)
    /\ ret' = [ret EXCEPT !.run[k].pc = "Bind",
                          !.run[k].meta = <<metaCache'[MetaKey(call.t)].content>>]
    /\ UNCHANGED <<call, getting, pipelineVars, shutdownVars>>

\* one turn of the loop of Bind for request k: the binder is skipped, or it
\* binds into the request's record, the path binder with the descriptor
\* getStructMeta returned; its error ends the loop
SharedBindStep(k) ==
    /\ call # <<>> /\ call.op = "Serve"
    /\ ret.run[k].pc = "Bind"
    /\ ret.run[k].idx <= Len(BindersOf(call.cfg))
    /\ ~AtMetaBinder(k)
    /\ LET run == ret.run[k]
           b == BindersOf(call.cfg)[run.idx]
           skip == ~Match(b, run.r) \/ (b.type = BinderBody /\ run.bodyBound)
           outcomes == IF UsesMeta(b)
                       THEN PathBindMeta(run.meta[1], run.r, call.t, ret.heap[run.at])
                       ELSE BinderBind(b, run.r, call.t, ret.heap[run.at])
       IN  IF skip
           THEN ret' = [ret EXCEPT !.run[k].idx = @ + 1]
           ELSE \E res \in outcomes :
                  ret' = [heap |-> [ret.heap EXCEPT ![run.at] = res.v],
                          run |-> [ret.run EXCEPT ![k] =
                              [@ EXCEPT !.bodyBound = @ \/ b.type = BinderBody,
                                        !.err = res.err,
                                        !.meta = Nil,
                                        !.idx = IF res.err # Nil THEN @ ELSE @ + 1,
                                        !.pc = IF res.err # Nil THEN "done" ELSE @]]]
    /\ UNCHANGED <<call, metaCache, getting, pipelineVars, shutdownVars>>

\* Bind of request k returns nil
SharedBindReturn(k) ==
    /\ call # <<>> /\ call.op = "Serve"
    /\ ret.run[k].pc = "Bind"
    /\ ret.run[k].idx > Len(BindersOf(call.cfg))
    /\ ret' = [ret EXCEPT !.run[k].pc = "done"]
    /\ UNCHANGED <<call, metaCache, getting, pipelineVars, shutdownVars>>

NextShared ==
    \/ \E k \in Servings : SharedPrepare(k)
    \/ \E k \in Servings : SharedMetaLoad(k)
    \/ \E k \in Servings : SharedMetaLoadOrStore(k)
    \/ \E k \in Servings : SharedBindStep(k)
    \/ \E k \in Servings : SharedBindReturn(k)

SpecShared == InitShared /\ [][NextShared]_vars

\* what request k may get when served alone: the ceiling, then Bind into
\* a zero record (the outcomes of Bind)
ServedAlone(k) ==
    Bind(BindersOf(call.cfg),
         IF call.cfg.maxBodySize > 0
         THEN MaxBytesReader(call.rs[k], call.cfg.maxBodySize) ELSE call.rs[k],
         call.t, Zero(call.t), FALSE)

\* C32: binders keep no per-call state and each request gets its own
\* record: of two requests one handler serves concurrently, sharing the
\* binder instances and the descriptor cache, each, once its Bind has
\* returned, has the record and the error it would have had when served
\* alone, and keeps them whatever the other request does afterwards; the
\* records of the two requests are different records.
C32_ConcurrentRequestsIndependent ==
    /\ \A k \in Servings :
          ret.run[k].pc = "done" =>
              [v |-> ret.heap[ret.run[k].at], err |-> ret.run[k].err] \in ServedAlone(k)
    /\ \A k, l \in Servings :
          (k # l /\ ret.run[k].at # 0 /\ ret.run[l].at # 0) =>
              ret.run[k].at # ret.run[l].at
    /\ \A key \in DOMAIN metaCache :
          metaCache[key].content = getStructMeta(key.elem)

\* C32 witness: both requests are done; they were bound step by step in
\* turn, one with a path value and a query, the other with a JSON body
\* only, and the two records differ in both fields.
C32_Witness ==
    /\ \A k \in Servings : ret.run[k].pc = "done" /\ ret.run[k].err = Nil
    /\ ret.run[1].at = 2 /\ ret.run[2].at = 1
    /\ ret.run[1].r.path["id"] = "p" /\ URLQuery(ret.run[1].r) # <<>>
    /\ ret.run[2].r.path["id"] = "" /\ ret.run[2].r.ct = CtJson
    /\ ret.heap[2] = <<"p", "b">>
    /\ ret.heap[1] = <<"a", "">>
    /\ metaCache # <<>>


----------------------------------------------------------------------------
(* The active-session map.                                                 *)

\* the requests that are inside the handler Middleware wraps
InHandler == {s \in Sessions : inflight[s] = "handling"}

\* the requests that have come to Middleware
Begun == {s \in Sessions : inflight[s] # "new"}

\* C33: the active-session map of a ShutdownManager holds exactly the
\* sessions of the requests that are inside Middleware's wrapped handler,
\* each under its own id: a session is stored before the handler starts and
\* deleted when the handler returns or panics, whatever Shutdown is doing,
\* no two requests got the same session id, and when every request has
\* finished the map is empty.
C33_ActiveSessionsAreInFlight ==
    /\ DOMAIN activeHandlers = {sessionID[s] : s \in InHandler}
    /\ \A s \in InHandler : activeHandlers[sessionID[s]] = s
    /\ \A s \in Begun : \A q \in Begun \ {s} : sessionID[s] # sessionID[q]
    /\ (\A s \in Sessions : inflight[s] = "finished") => DOMAIN activeHandlers = {}

\* C33 witness: two requests are in their handlers at once, the map holds
\* the session of each under an id of its own (the ids were made across the
\* wrap of xid's counter), and the Range of a Shutdown has come to both.
C33_Witness ==
    /\ InHandler = Sessions
    /\ Cardinality(DOMAIN activeHandlers) = MaxSessions
    /\ objectIDCounter < MaxSessions
    /\ \E c \in Callers : down[c].seen = DOMAIN activeHandlers

\* a request has left its handler and its session is gone from the map,
\* while the session of a request still in its handler is kept
DeletedWhileOtherKept ==
    \E s \in Sessions : \E q \in Sessions :
        /\ inflight[s] = "finished" /\ inflight[q] = "handling"
        /\ DOMAIN activeHandlers = {sessionID[q]}


----------------------------------------------------------------------------
(* The browser's requirements on prefixed cookie names.                    *)

\* the Set-Cookie values a finished SetCookie or DelCookie call emitted
Emitted ==
    IF call.op \in {"SetCookie", "DelCookie"} /\ ret # Pending
    THEN {ret.setCookies[k] : k \in DOMAIN ret.setCookies}
    ELSE {}

\* C34: for every name and every combination of options, a cookie SetCookie
\* emits under a name that starts with __Host- has Secure true, Path "/" and
\* an empty Domain, one under a name that starts with __Secure- has Secure
\* true, and every prefixed variant DelCookie emits has Secure true.
C34_PrefixRequirementsMet ==
    \A c \in Emitted :
        /\ call.op = "SetCookie" =>
              /\ HasPrefix(c.Name, HostPrefix) =>
                    c.Secure /\ c.Path = "/" /\ c.Domain = ""
              /\ HasPrefix(c.Name, SecurePrefix) => c.Secure
        /\ (/\ call.op = "DelCookie"
            /\ HasPrefix(c.Name, HostPrefix) \/ HasPrefix(c.Name, SecurePrefix)) =>
              c.Secure

\* the same for names the caller did not prefix, and for DelCookie
PrefixRequirementsMetUnprefixed ==
    (call.op = "DelCookie" \/ ~(HasPrefix(call.name, HostPrefix)
                                \/ HasPrefix(call.name, SecurePrefix))) =>
        C34_PrefixRequirementsMet


----------------------------------------------------------------------------
(* One request through Recovery, RateLimit, Auth and a NewHandler handler: *)
(* the calls of w.WriteHeader made on the way.                             *)

ErrForbidden == HttpError(StatusForbidden, "FORBIDDEN", <<"Forbidden">>)
ErrTooManyRequests ==
    HttpError(StatusTooManyRequests, "TOO_MANY_REQUESTS", <<"Too Many Requests">>)

\* the *HttpError WithAuthChallenge returns for ErrNoCredentials
ChallengeError ==
    HttpError(StatusUnauthorized, "Unauthorized", <<"authentication required">>)

\* the error Recovery reports for a recovered panic
PanicError == HttpError(StatusInternalServerError, "PANIC", <<"panic: oops">>)

\* an error as Error sees it: a *HttpError, or an error of another type
\* that is no PublicError and has no MarshalJSON
HttpErrorArg(err) ==
    [err |-> err, isHttpError |-> TRUE, public |-> Nil, marshaler |-> FALSE]
PlainErrorArg(err) ==
    [err |-> err, isHttpError |-> FALSE, public |-> Nil, marshaler |-> FALSE]

\* what the strategy of Auth returns: no error, a *HttpError of its own
\* (the challenge, ErrForbidden), or an error of another type
StrategyErrors ==
    {Nil, <<HttpErrorArg(ChallengeError)>>, <<HttpErrorArg(ErrForbidden)>>,
     <<PlainErrorArg(HttpError(0, "", <<"no credentials">>))>>}

\* how the handler's prepare ends: Bind fails with an error of the binder,
\* Validate fails, the business function returns an error, panics, or
\* returns a result
HandlerOutcomes ==
    [stage : {"validate", "panic", "ok"}, err : {Nil}]
    \cup [stage : {"bind"},
          err : {<<"bind json error">>, Wrap("bind json error", <<MaxBytesError>>)}]
    \cup [stage : {"error"},
          err : {<<PlainErrorArg(BusinessError)>>, <<HttpErrorArg(ConflictError)>>,
                 <<HttpErrorArg(ErrUnauthorized)>>}]

\* the error prepare hands to the error function for an outcome, under
\* the constructor's default ceiling
OutcomeError(outcome) ==
    CASE outcome.stage = "bind" ->
            HttpErrorArg(BindFailure([maxBodySize |-> DefaultMaxBodySize], outcome.err))
      [] outcome.stage = "validate" -> HttpErrorArg(ValidationError)
      [] outcome.stage = "error" -> outcome.err[1]

\* the served request: rw the ResponseWriter, headerCalls the codes
\* w.WriteHeader was called with, in order
ServeState(pcv, rw, headerCalls) == [pc |-> pcv, rw |-> rw, headerCalls |-> headerCalls]

\* w.WriteHeader(code) called by the library on the served request
CallWriteHeader(st, code) ==
    [st EXCEPT !.rw = WriteHeader(@, code), !.headerCalls = Append(@, code)]

\* Error(w, r, err) without options and without a trace provider: the
\* status, business code and message of steps 5 and 6, one w.WriteHeader,
\* the Content-Type in w.Header(), then the envelope
CallError(st, arg, safeMode) ==
    LET httpCode == ErrorStatus(arg.err)
        headed == CallWriteHeader(st, httpCode)
        typed == [headed EXCEPT !.rw.header.Content_Type = JsonContentType]
    IN  [typed EXCEPT !.rw = Write(@, [envelope |-> TRUE,
                                        Code |-> ErrorBizCode(arg.err),
                                        Message |-> SafeMessage(arg, httpCode, safeMode),
                                        TraceID |-> ""])]

InitRecovery ==
    /\ call \in [op : {"ServeChain"}, allow : BOOLEAN, strategyErr : StrategyErrors,
                 outcome : HandlerOutcomes, header : PresetHeaders,
                 SafeMode : BOOLEAN]
    /\ ret = ServeState("Recovery", NewWriter(call.header), <<>>)
    /\ PipelineIdle
    /\ CacheIdle
    /\ ShutdownIdle

\* Recovery: the recover is deferred and next.ServeHTTP is called
RecoveryEnter ==
    /\ call.op = "ServeChain"
    /\ ret.pc = "Recovery"
    /\ ret' = [ret EXCEPT !.pc = "RateLimit"]
    /\ UNCHANGED <<call, notCall>>

\* RateLimit: a request the limiter does not allow is answered by the
\* error function, another goes on
RateLimitServe ==
    /\ call.op = "ServeChain"
    /\ ret.pc = "RateLimit"
    /\ ret' = IF ~call.allow
              THEN [CallError(ret, HttpErrorArg(ErrTooManyRequests), call.SafeMode)
                       EXCEPT !.pc = "return"]
              ELSE [ret EXCEPT !.pc = "Auth"]
    /\ UNCHANGED <<call, notCall>>

\* Auth: a *HttpError of the strategy is handed to the error function,
\* any other result goes on
AuthServe ==
    /\ call.op = "ServeChain"
    /\ ret.pc = "Auth"
    /\ ret' = IF call.strategyErr # Nil /\ call.strategyErr[1].isHttpError
              THEN [CallError(ret, call.strategyErr[1], call.SafeMode)
                       EXCEPT !.pc = "return"]
              ELSE [ret EXCEPT !.pc = "prepare"]
    /\ UNCHANGED <<call, notCall>>

\* the handler of NewHandler, prepare: a failed stage is answered by the
\* error function, a panic of the business function unwinds to Recovery
HandlerPrepare ==
    /\ call.op = "ServeChain"
    /\ ret.pc = "prepare"
    /\ ret' = CASE call.outcome.stage = "ok" -> [ret EXCEPT !.pc = "respond"]
                [] call.outcome.stage = "panic" -> [ret EXCEPT !.pc = "panic"]
                [] OTHER -> [CallError(ret, OutcomeError(call.outcome), call.SafeMode)
                                EXCEPT !.pc = "return"]
    /\ UNCHANGED <<call, notCall>>

\* the handler of NewHandler, success: Content-Type, w.WriteHeader(200),
\* the envelope
HandlerRespond ==
    /\ call.op = "ServeChain"
    /\ ret.pc = "respond"
    /\ LET typed == [ret EXCEPT !.rw.header.Content_Type = JsonContentType]
           headed == CallWriteHeader(typed, StatusOK)
       IN  ret' = [headed EXCEPT !.pc = "return",
                                 !.rw = Write(@, [envelope |-> TRUE, Code |-> "OK",
                                                  Message |-> <<"success">>,
                                                  TraceID |-> ""])]
    /\ UNCHANGED <<call, notCall>>

\* Recovery's deferred function after a panic: w.WriteHeader(500), then
\* Error with the PANIC error
RecoveryRecover ==
    /\ call.op = "ServeChain"
    /\ ret.pc = "panic"
    /\ ret' = [CallError(CallWriteHeader(ret, StatusInternalServerError),
                         HttpErrorArg(PanicError), call.SafeMode)
                  EXCEPT !.pc = "done"]
    /\ UNCHANGED <<call, notCall>>

\* next.ServeHTTP returned without a panic: recover() is nil
RecoveryReturn ==
    /\ call.op = "ServeChain"
    /\ ret.pc = "return"
    /\ ret' = [ret EXCEPT !.pc = "done"]
    /\ UNCHANGED <<call, notCall>>

NextRecovery ==
    \/ RecoveryEnter
    \/ RateLimitServe
    \/ AuthServe
    \/ HandlerPrepare
    \/ HandlerRespond
    \/ RecoveryRecover
    \/ RecoveryReturn

SpecRecovery == InitRecovery /\ [][NextRecovery]_vars

\* C35: on every path through Recovery, RateLimit, Auth and the handler of
\* NewHandler (success, failure through Error, panic) w.WriteHeader is
\* called at most once for the request.
C35_WriteHeaderAtMostOnce ==
    call.op = "ServeChain" => Len(ret.headerCalls) <= 1

\* the same on the paths without a panic
WriteHeaderOnceWithoutPanic ==
    (call.op = "ServeChain"
     /\ ~(/\ call.allow
          /\ (call.strategyErr = Nil \/ ~call.strategyErr[1].isHttpError)
          /\ call.outcome.stage = "panic")) =>
        /\ Len(ret.headerCalls) <= 1
        /\ ret.pc = "done" => Len(ret.headerCalls) = 1


----------------------------------------------------------------------------
(* The order in which Shutdown runs the callbacks of a session.            *)

\* the callbacks of session s that have run are the last ones of the list
\* its goroutine read, last registered first, and the goroutine stands at
\* the one before them: a callback starts after the one registered after it
\* has returned
InReverseOrder(s) ==
    /\ \A j \in 1..Len(executed[s]) :
          executed[s][j] = worker[s].cbs[Len(worker[s].cbs) - j + 1]
    /\ worker[s].st \in {"loop", "checked", "callback", "finished"} =>
          Len(executed[s]) = Len(worker[s].cbs) - worker[s].i

\* in this step the goroutine of session s calls a callback
CallbackStarts(s) == worker[s].st # "callback" /\ worker'[s].st = "callback"

\* in this step the goroutine of session s reads ctx.Err() as nil
CheckPasses(s) == worker[s].st # "checked" /\ worker'[s].st = "checked"

\* C36 as stated: the callbacks of a session run one after the other in
\* reverse order of their registration, and no callback of a session is
\* started in a state where ctx is done.
C36_NoCallbackStartsAfterCtxDone ==
    [][ /\ \A s \in Sessions : InReverseOrder(s)'
        /\ \A s \in Sessions :
              CallbackStarts(s) => down[worker[s].of].ctx = "live"
      ]_vars

\* C36, amended: the callbacks of a session run one after the other in
\* reverse order of their registration; a callback is started only right
\* after a check of its own that found ctx not done; a goroutine that has
\* passed its check can start its callback whatever the goroutines of the
\* other sessions are doing, also while their callbacks run; and a
\* goroutine that stands at its check with ctx done starts no further
\* callback.
C36_ReverseOrderUntilCtxSeenDone ==
    [][ /\ \A s \in Sessions : InReverseOrder(s)'
        /\ \A s \in Sessions : CallbackStarts(s) => worker[s].st = "checked"
        /\ \A s \in Sessions : CheckPasses(s) => down[worker[s].of].ctx = "live"
        /\ \A s \in Sessions : worker[s].st = "checked" => ENABLED WorkerInvoke(s)
        /\ \A s \in Sessions :
              (worker[s].st = "loop" /\ down[worker[s].of].ctx = "done") =>
                  worker'[s].st \in {"loop", "finished"}
        /\ \A s \in Sessions : worker[s].st = "finished" => worker'[s].st = "finished"
      ]_vars

\* C36 witness: a session registered two callbacks; Shutdown ran the
\* second and is now in the first, while the callback of another session
\* is running too.
C36_Witness ==
    \E s \in Sessions : \E q \in Sessions \ {s} :
        /\ worker[s].cbs = <<1, 2>>
        /\ executed[s] = <<2>>
        /\ worker[s].st = "callback" /\ worker[s].i = 1
        /\ worker[q].st = "callback"

\* the session registered two callbacks; Shutdown ran the second, ctx was
\* done when its goroutine came back to the check, and the goroutine ended
\* without starting the first
StoppedAtCtxDone ==
    \E s \in Sessions :
        /\ worker[s].cbs = <<1, 2>>
        /\ executed[s] = <<2>>
        /\ worker[s].st = "finished"
        /\ down[worker[s].of].ctx = "done"

\* both callbacks of a session have run, the last registered first
BothRanInReverse == \E s \in Sessions : executed[s] = <<2, 1>>

\* a callback was started after ctx was done: its check had passed before
StartedAfterCtxDone ==
    \E s \in Sessions :
        /\ worker[s].st = "callback"
        /\ Len(executed[s]) = 0
        /\ down[worker[s].of].ctx = "done"
        /\ down[worker[s].of].pc = "returned"

====
